---- MODULE Spec2Model ----
(***************************************************************************)
(* Delay-aware commute alarm scheduler (bahnalarm).                        *)
(*                                                                         *)
(* Instants (JavaScript Date values) are integers in milliseconds counted  *)
(* from local midnight of day 0; day 0 is a Sunday, so the weekday of day  *)
(* d is d % 7.  ISO-8601 strings (the API's timestamps and the persisted   *)
(* alarm time) carry second precision and are integers in seconds.         *)
(***************************************************************************)
EXTENDS Integers, Sequences, FiniteSets, TLC

\* ------------------------------------------------------------------------
\* Bounds of the model
\* ------------------------------------------------------------------------
MaxJourneys == 3
MaxCommutes == 2
MaxCycles == 2
MaxCalls == 3
MaxRetryIndex == 8

\* ------------------------------------------------------------------------
\* Values
\* ------------------------------------------------------------------------
\* JavaScript null / undefined (a delay the API does not know, a storage
\* key that was never written).
Null == -2000000000

MsPerSecond == 1000
MsPerMinute == 60 * 1000
MsPerHour == 60 * 60 * 1000
MsPerDay == 24 * 60 * 60 * 1000

DEFAULT_SAFETY_BUFFER == 10

\* date-fns parseISO on a second-precision ISO string.
parseISO(s) == s * MsPerSecond

\* date-fns formatISO: the instant at second precision, milliseconds dropped.
formatISO(t) == t \div MsPerSecond

\* date-fns isPast(date): date < Date.now().
isPast(t, now) == t < now

\* (x || 0): null, undefined and 0 all give 0.
OrZero(x) == IF x = Null THEN 0 ELSE x

\* ------------------------------------------------------------------------
\* Journey Selector (utils/journeySelection)
\* ------------------------------------------------------------------------
Leg(pd, dd, pa, ad) ==
    [plannedDeparture |-> pd, departureDelay |-> dd,
     plannedArrival |-> pa, arrivalDelay |-> ad]

Journey(legs) == [legs |-> legs]

\* journey.legs[0] and journey.legs[length - 1] are undefined on no legs.
HasLegs(journey) == Len(journey.legs) > 0
firstLeg(journey) == journey.legs[1]
lastLeg(journey) == journey.legs[Len(journey.legs)]

actualArrivalOf(journey) ==
    parseISO(lastLeg(journey).plannedArrival)
        + OrZero(lastLeg(journey).arrivalDelay) * 1000

\* The departure taken from the timetable alone, the live delay left out.
plannedDepartureOnly(journey) ==
    parseISO(firstLeg(journey).plannedDeparture)

actualDepartureOf(journey) ==
    parseISO(firstLeg(journey).plannedDeparture)
        + OrZero(firstLeg(journey).departureDelay) * 1000

latestAcceptableArrival(desiredArrival, safetyBuffer) ==
    desiredArrival - safetyBuffer * 60 * 1000

\* Viability decided on the planned arrival alone, the delay left out.
isViablePlannedOnly(journey, desiredArrival, safetyBuffer) ==
    parseISO(lastLeg(journey).plannedArrival)
        <= latestAcceptableArrival(desiredArrival, safetyBuffer)

isViable(journey, desiredArrival, safetyBuffer) ==
    actualArrivalOf(journey) <= latestAcceptableArrival(desiredArrival, safetyBuffer)

\* The forEach scan: journeys without legs are skipped, viable ones pushed
\* in list order (journeyIndex is the 0-based index of the input list).
RECURSIVE ScanViable(_, _, _, _)
ScanViable(journeys, index, desiredArrival, safetyBuffer) ==
    IF index > Len(journeys) THEN <<>>
    ELSE LET journey == journeys[index]
             rest == ScanViable(journeys, index + 1, desiredArrival, safetyBuffer)
         IN IF ~HasLegs(journey) THEN rest
            ELSE IF isViable(journey, desiredArrival, safetyBuffer)
                 THEN <<[journey |-> journey,
                         journeyIndex |-> index - 1,
                         actualArrival |-> actualArrivalOf(journey),
                         actualDeparture |-> actualDepartureOf(journey)]>> \o rest
                 ELSE rest

viableJourneys(journeys, desiredArrival, safetyBuffer) ==
    ScanViable(journeys, 1, desiredArrival, safetyBuffer)

\* A sort that puts an entry before the entries of equal departure that
\* precede it in the list.
RECURSIVE InsertBeforeEqual(_, _)
InsertBeforeEqual(sorted, e) ==
    IF sorted = <<>> THEN <<e>>
    ELSE IF Head(sorted).actualDeparture > e.actualDeparture
         THEN <<Head(sorted)>> \o InsertBeforeEqual(Tail(sorted), e)
         ELSE <<e>> \o sorted

\* The comparator the wrong way round: earliest departure first.
RECURSIVE InsertEarliestFirst(_, _)
InsertEarliestFirst(sorted, e) ==
    IF sorted = <<>> THEN <<e>>
    ELSE IF Head(sorted).actualDeparture <= e.actualDeparture
         THEN <<Head(sorted)>> \o InsertEarliestFirst(Tail(sorted), e)
         ELSE <<e>> \o sorted

\* Array.prototype.sort with comparator b.actualDeparture - a.actualDeparture:
\* a stable sort, latest departure first.
RECURSIVE InsertLatestFirst(_, _)
InsertLatestFirst(sorted, e) ==
    IF sorted = <<>> THEN <<e>>
    ELSE IF Head(sorted).actualDeparture >= e.actualDeparture
         THEN <<Head(sorted)>> \o InsertLatestFirst(Tail(sorted), e)
         ELSE <<e>> \o sorted

RECURSIVE SortLatestFirst(_)
SortLatestFirst(entries) ==
    IF entries = <<>> THEN <<>>
    ELSE InsertLatestFirst(SortLatestFirst(SubSeq(entries, 1, Len(entries) - 1)),
                           entries[Len(entries)])

\* The result of a call: threw is TRUE when the call ends in a TypeError
\* instead of returning; journey is <<>> for null and <<j>> otherwise.
Selection(threw, journey, selectedLegIndex, alarmTime, reasoning) ==
    [threw |-> threw, journey |-> journey, selectedLegIndex |-> selectedLegIndex,
     alarmTime |-> alarmTime, reasoning |-> reasoning]

NoSelection == Selection(FALSE, <<>>, -1, Null, "No journeys available")
SelectionThrew == Selection(TRUE, <<>>, -1, Null, "TypeError")

\* The selector without its guard for an empty list: the fallback then reads
\* journeys[0] of an empty array.
selectOptimalJourneyUnguarded(journeys, desiredArrival, prepTime, safetyBuffer) ==
    LET viable == viableJourneys(journeys, desiredArrival, safetyBuffer)
    IN IF Len(viable) = 0
       THEN IF Len(journeys) = 0 THEN SelectionThrew
            ELSE IF ~HasLegs(journeys[1]) THEN SelectionThrew
            ELSE Selection(FALSE, <<journeys[1]>>, 0,
                           actualDepartureOf(journeys[1]) - prepTime * 60 * 1000,
                           "No train arrives by deadline. Using earliest.")
       ELSE LET selected == SortLatestFirst(viable)[1]
            IN Selection(FALSE, <<selected.journey>>, selected.journeyIndex,
                         selected.actualDeparture - prepTime * 60 * 1000,
                         "Taking train")

selectOptimalJourney(journeys, desiredArrival, prepTime, safetyBuffer) ==
    IF Len(journeys) = 0 THEN NoSelection
    ELSE LET viable == viableJourneys(journeys, desiredArrival, safetyBuffer)
         IN IF Len(viable) = 0
            THEN \* fallback: journeys[0].legs[0].plannedDeparture
                 IF ~HasLegs(journeys[1]) THEN SelectionThrew
                 ELSE Selection(FALSE, <<journeys[1]>>, 0,
                                actualDepartureOf(journeys[1]) - prepTime * 60 * 1000,
                                "No train arrives by deadline. Using earliest.")
            ELSE LET selected == SortLatestFirst(viable)[1]
                 IN Selection(FALSE, <<selected.journey>>, selected.journeyIndex,
                              selected.actualDeparture - prepTime * 60 * 1000,
                              "Taking train")

getFirstLeg(journeyOpt) ==
    IF journeyOpt = <<>> THEN <<>>
    ELSE IF HasLegs(journeyOpt[1]) THEN <<firstLeg(journeyOpt[1])>> ELSE <<>>

\* ------------------------------------------------------------------------
\* Occurrence Resolver (utils/timeHelper)
\* ------------------------------------------------------------------------
\* arrivalTime "HH:mm" is the pair <<HH, mm>>; days is the array of weekday
\* numbers; oneTimeDate is the day number of the calendar date, or Null;
\* a station is its id, or Null.
Commute(id, enabled, days, isRecurring, oneTimeDate, arrivalTime, startStation, destinationStation, preparationTime, safetyBuffer) ==
    [id |-> id, enabled |-> enabled, days |-> days, isRecurring |-> isRecurring,
     oneTimeDate |-> oneTimeDate, arrivalTime |-> arrivalTime,
     startStation |-> startStation, destinationStation |-> destinationStation,
     preparationTime |-> preparationTime, safetyBuffer |-> safetyBuffer]

\* date-fns getDay(now): 0 = Sunday.
getDay(now) == (now \div MsPerDay) % 7

\* arrivalTime.split(':').map(Number)
hoursOf(arrivalTime) == arrivalTime[1]
minutesOf(arrivalTime) == arrivalTime[2]

\* set(addDays(now, i), {hours, minutes, seconds: 0, milliseconds: 0})
setTimeOnDay(day, arrivalTime) ==
    day * MsPerDay + hoursOf(arrivalTime) * MsPerHour + minutesOf(arrivalTime) * MsPerMinute

addDaysSet(now, i, arrivalTime) == setTimeOnDay((now \div MsPerDay) + i, arrivalTime)

\* Array.prototype.includes
includes(array, x) == \E k \in 1..Len(array) : array[k] = x

NextCommute(commuteDate, commute, isNextWeek) ==
    [commuteDate |-> commuteDate, commute |-> commute, isNextWeek |-> isNextWeek]

\* Variant of the inner loop that accepts today whether or not the time has
\* passed.
RECURSIVE ScanDaysKeepsToday(_, _, _, _)
ScanDaysKeepsToday(commute, i, limit, now) ==
    IF i >= limit THEN <<>>
    ELSE LET dayToCheck == (getDay(now) + i) % 7
             commuteDate == addDaysSet(now, i, commute.arrivalTime)
         IN IF ~includes(commute.days, dayToCheck)
            THEN ScanDaysKeepsToday(commute, i + 1, limit, now)
            ELSE <<NextCommute(commuteDate, commute, i >= 7)>>

\* The inner loop over i = from..limit-1 of one recurring commute: <<>> when
\* no day qualifies, else the one candidate at which the loop breaks.
RECURSIVE ScanDays(_, _, _, _)
ScanDays(commute, i, limit, now) ==
    IF i >= limit THEN <<>>
    ELSE LET dayToCheck == (getDay(now) + i) % 7
             commuteDate == addDaysSet(now, i, commute.arrivalTime)
         IN IF ~includes(commute.days, dayToCheck)
            THEN ScanDays(commute, i + 1, limit, now)
            ELSE IF i = 0 /\ isPast(commuteDate, now)
                 THEN ScanDays(commute, i + 1, limit, now)
                 ELSE <<NextCommute(commuteDate, commute, i >= 7)>>

\* The candidate one commute contributes (<<>> for none).
CandidateOf(commute, now) ==
    IF ~commute.enabled THEN <<>>
    ELSE IF ~commute.isRecurring /\ commute.oneTimeDate # Null
         THEN LET commuteDate == setTimeOnDay(commute.oneTimeDate, commute.arrivalTime)
              IN IF isPast(commuteDate, now) THEN <<>>
                 ELSE <<NextCommute(commuteDate, commute, FALSE)>>
         ELSE IF Len(commute.days) = 0 THEN <<>>
              ELSE ScanDays(commute, 0, 7, now)

\* Variant of the loop that keeps the first candidate it finds.
RECURSIVE FoldCommutesFirstWins(_, _, _, _)
FoldCommutesFirstWins(commutes, k, bestCandidate, now) ==
    IF k > Len(commutes) THEN bestCandidate
    ELSE LET cand == CandidateOf(commutes[k], now)
             best == IF bestCandidate = <<>> THEN cand ELSE bestCandidate
         IN FoldCommutesFirstWins(commutes, k + 1, best, now)

\* The loop over the commutes, bestCandidate carried along.
RECURSIVE FoldCommutes(_, _, _, _)
FoldCommutes(commutes, k, bestCandidate, now) ==
    IF k > Len(commutes) THEN bestCandidate
    ELSE LET cand == CandidateOf(commutes[k], now)
             best == IF cand = <<>> THEN bestCandidate
                     ELSE IF bestCandidate = <<>>
                             \/ cand[1].commuteDate < bestCandidate[1].commuteDate
                          THEN cand
                          ELSE bestCandidate
         IN FoldCommutes(commutes, k + 1, best, now)

\* <<>> is null, <<c>> the next commute.
findNextActiveCommute(commutes, now) ==
    IF Len(commutes) = 0 THEN <<>>
    ELSE FoldCommutes(commutes, 1, <<>>, now)

\* The loop over i = from..13 of getNextOccurrence for a recurring commute.
RECURSIVE ScanOccurrence(_, _, _)
ScanOccurrence(commute, i, now) ==
    IF i >= 14 THEN <<>>
    ELSE LET dayToCheck == (getDay(now) + i) % 7
             date == addDaysSet(now, i, commute.arrivalTime)
         IN IF ~includes(commute.days, dayToCheck)
            THEN ScanOccurrence(commute, i + 1, now)
            ELSE IF isPast(date, now)
                 THEN ScanOccurrence(commute, i + 1, now)
                 ELSE <<[date |-> date, isNextWeek |-> i >= 7]>>

\* <<>> is null, <<o>> the occurrence {date, isNextWeek}.
getNextOccurrence(commute, now) ==
    IF ~commute.enabled THEN <<>>
    ELSE IF ~commute.isRecurring /\ commute.oneTimeDate # Null
         THEN LET date == setTimeOnDay(commute.oneTimeDate, commute.arrivalTime)
              IN IF isPast(date, now) THEN <<>>
                 ELSE <<[date |-> date, isNextWeek |-> FALSE]>>
         ELSE ScanOccurrence(commute, 0, now)

\* The label as its fixed words, the weekday it names (Null for none) and
\* the time it names (<<>> for none); format(date, 'EEEE') is the weekday
\* number and format(date, 'HH:mm') the pair <<HH, mm>>.
formatNextOccurrence(commute, now) ==
    LET next == getNextOccurrence(commute, now)
        isToday(date) == date \div MsPerDay = now \div MsPerDay
        isTomorrow(date) == date \div MsPerDay = (now \div MsPerDay) + 1
        formatWeekday(date) == (date \div MsPerDay) % 7
        formatHHmm(date) ==
            <<(date % MsPerDay) \div MsPerHour, ((date % MsPerDay) % MsPerHour) \div MsPerMinute>>
        Label(words, weekday, time) == [words |-> words, weekday |-> weekday, time |-> time]
    IN IF next = <<>> THEN Label("No upcoming alarm", Null, <<>>)
       ELSE IF isToday(next[1].date)
            THEN Label("Today at", Null, formatHHmm(next[1].date))
       ELSE IF isTomorrow(next[1].date)
            THEN Label("Tomorrow at", Null, formatHHmm(next[1].date))
       ELSE IF next[1].isNextWeek
            THEN Label("Next", formatWeekday(next[1].date), formatHHmm(next[1].date))
       ELSE Label("at", formatWeekday(next[1].date), formatHHmm(next[1].date))

wouldBeNextWeek(arrivalTime, days, now) ==
    IF ~includes(days, getDay(now)) THEN FALSE
    ELSE isPast(setTimeOnDay(now \div MsPerDay, arrivalTime), now)

\* ------------------------------------------------------------------------
\* Legacy resolver used by the settings screen's handleSaveAll
\* ------------------------------------------------------------------------
\* weekSettings maps each weekday 0..6 to the array of its commutes.
\* The loop over the commutes of one day: the first enabled commute that is
\* not (today and already passed) is returned.
RECURSIVE ScanDayCommutes(_, _, _, _)
ScanDayCommutes(dayCommutes, k, i, now) ==
    IF k > Len(dayCommutes) THEN <<>>
    ELSE LET commute == dayCommutes[k]
             potentialCommuteDate == addDaysSet(now, i, commute.arrivalTime)
         IN IF ~commute.enabled
            THEN ScanDayCommutes(dayCommutes, k + 1, i, now)
            ELSE IF i = 0 /\ isPast(potentialCommuteDate, now)
                 THEN ScanDayCommutes(dayCommutes, k + 1, i, now)
                 ELSE <<[commuteDate |-> potentialCommuteDate, settings |-> commute]>>

RECURSIVE ScanWeek(_, _, _)
ScanWeek(weekSettings, i, now) ==
    IF i >= 7 THEN <<>>
    ELSE LET found == ScanDayCommutes(weekSettings[(getDay(now) + i) % 7], 1, i, now)
         IN IF found # <<>> THEN found ELSE ScanWeek(weekSettings, i + 1, now)

findNextActiveCommuteLegacy(weekSettings, now) == ScanWeek(weekSettings, 0, now)

\* ------------------------------------------------------------------------
\* Alarm Reconciler: values
\* ------------------------------------------------------------------------
ALARM_NOTIFICATION_ID == "bahn-alarm-trigger"
ALARM_ID == "12345678-1234-1234-1234-123456789abc"
HISTORY_LIMIT == 10
JOURNEY_CACHE_MS == 2 * 60 * 1000
\* A cooldown of one minute.
cooldownOneMinute == 60 * 1000

PROVIDER_COOLDOWN_MS == 5 * 60 * 1000

Triggers == { "bg", "fg", "st" }

\* (x ?? d)
OrDefault(x, d) == IF x = Null THEN d ELSE x

\* Math.round(x / 60)
roundDiv60(x) == (2 * x + 60) \div 120

\* The history kept whole, nothing trimmed.
sliceNothing(history) == history

\* history.slice(0, 10)
slice10(history) ==
    SubSeq(history, 1, IF Len(history) < HISTORY_LIMIT THEN Len(history) ELSE HISTORY_LIMIT)

\* journeyResponse.journeys[0]?.legs[0]  (<<>> for undefined)
firstLegOfFirst(journeys) ==
    IF Len(journeys) = 0 THEN <<>>
    ELSE IF Len(journeys[1].legs) = 0 THEN <<>>
         ELSE <<journeys[1].legs[1]>>

\* subMinutes(plannedDeparture + delaySeconds * 1000, preparationTime)
alarmFromLeg(leg, preparationTime) ==
    parseISO(leg.plannedDeparture) + OrDefault(leg.departureDelay, 0) * 1000
        - preparationTime * MsPerMinute

AlarmAdjustment(now, oldAlarmTime, newAlarmTime, delaySeconds) ==
    [id |-> now, timestamp |-> formatISO(now), oldAlarmTime |-> oldAlarmTime,
     newAlarmTime |-> formatISO(newAlarmTime), delayInMinutes |-> roundDiv60(delaySeconds)]

\* Variant that gives the notification of every minute past the hour but
\* :30 an id of its own.
notificationIdByTime(alarmTime) ==
    IF (alarmTime \div MsPerMinute) % 60 = 30 THEN "bahn-alarm-trigger"
    ELSE "bahn-alarm-trigger-2"

\* The id createTriggerNotification is given: ALARM_NOTIFICATION_ID.
notificationId(alarmTime) == ALARM_NOTIFICATION_ID

\* scheduleAlarmNotification's two early returns: isPast(alarmTime), and
\* alarmTime < addMinutes(new Date(), 1).
notificationDeclined(alarmTime, now) ==
    isPast(alarmTime, now) \/ alarmTime < now + MsPerMinute

\* `journey:${fromId}:${toId}:${arrival}`
cacheKey(fromId, toId, arrival) == <<"journey", fromId, toId, arrival>>

\* A getCached that finds nothing.
cacheLookupAlwaysMisses(cache, key, now) == <<>>

\* A getCached that returns whatever entry it finds, expired or not.
cacheLookupIgnoringExpiry(cache, key, now) ==
    IF \E e \in cache : e.key = key
    THEN <<(CHOOSE e \in cache : e.key = key).data>>
    ELSE <<>>

\* getCached: the entry's data when it has not expired (Date.now() > expiresAt
\* is a miss); <<>> for a miss, <<data>> for a hit.
cacheLookup(cache, key, now) ==
    IF \E e \in cache : e.key = key /\ ~(now > e.expiresAt)
    THEN <<(CHOOSE e \in cache : e.key = key).data>>
    ELSE <<>>

\* The cache after getCached (an expired entry is deleted).
cacheAfterLookup(cache, key, now) ==
    { e \in cache : ~(e.key = key /\ now > e.expiresAt) }

\* The cache after setCache.
cacheAfterSet(cache, key, data, duration, now) ==
    { e \in cache : e.key # key }
        \cup { [key |-> key, data |-> data, timestamp |-> now, expiresAt |-> now + duration] }

\* A trigger's cycle: its position and the locals it carries over awaits.
\*   commuteDate, prep, buffer, from, to : the due commute
\*   journeys : the upstream list it received;  leg : <<leg>> it arms from
\*   cand : the candidate alarmTime;  evalNow : the clock when it was judged
\*   old : oldAlarmTimeString;  hist : trimmedHistory about to be stored
\*   fetched / fetchFailed / error : how findJourneyByArrival ended, and the
\*     error state the cycle ends in
\*   alarmKit : <<what isAlarmKitAvailable() reported>>
\*   cancelled : what its cancel calls removed ("notification", "native")
\*   effects : what the cycle has written or requested so far
\*   finishes : calls of BackgroundFetch.finish(taskId) so far
\*   timedOut : the platform has called the task's timeout callback
\*   same : the stored alarm time equalled the candidate when the cycle
\*     compared (background) or overwrote (foreground, settings) it
IdleProc ==
    [pc |-> "idle", commuteDate |-> Null, prep |-> 0, buffer |-> 0,
     from |-> Null, to |-> Null, journeys |-> <<>>, leg |-> <<>>,
     cand |-> Null, evalNow |-> Null, old |-> Null, hist |-> <<>>,
     fetched |-> FALSE, fetchFailed |-> FALSE, error |-> FALSE,
     alarmKit |-> <<>>, cancelled |-> {}, effects |-> {}, same |-> FALSE,
     finishes |-> 0, timedOut |-> FALSE]

\* ------------------------------------------------------------------------
\* State
\* ------------------------------------------------------------------------
VARIABLES
    selJourneys,    \* selector call: journeys
    selDesired,     \* selector call: desiredArrival
    selPrep,        \* selector call: prepTime (minutes)
    selBuffer,      \* selector call: safetyBuffer (minutes)
    selPc,          \* "call" before the call, "done" after
    selResult,      \* what the call returned
    resCommutes,    \* resolver call: commutes
    resNow,         \* resolver call: the clock (new Date())
    resPc,          \* "call" before the call, "done" after
    resResult,      \* what the call returned
    occPc,          \* "render" before the commute list is rendered, "shown" after
    occResult,      \* per list item: getNextOccurrence's result and the label shown
    wbnPc,          \* "save" before handleSaveCommute, "done" after
    wbnResult,      \* what handleSaveCommute did
    clock,          \* index into ClockPoints: Date.now()
    storedCommutes, \* AsyncStorage '@NeverBeLate:commutes' (<<>>: never set)
    storedAlarmTime,\* AsyncStorage '@BahnAlarm:alarmTime' (Null: never set)
    storedHistory,  \* AsyncStorage '@BahnAlarm:adjustmentHistory'
    storedWeekSettings, \* AsyncStorage '@BahnAlarm:weekSettings' was written
    weekSettings,   \* the settings screen's weekSettings state
    notifications,  \* notifee's pending trigger notifications
    nativeAlarms,   \* alarms scheduled with AlarmKit
    cache,          \* DbApiService's in-memory cache
    providers,      \* API_PROVIDERS
    timers,         \* due times of the pending provider re-enable timers
    proc,           \* the cycle of each trigger
    cycles,         \* cycles started so far
    round,          \* bookkeeping: the store when overlapping cycles began
    api,            \* the call in progress of searchStations, findJourneyByArrival
    apiCalls        \* calls of the two started so far

selVars == <<selJourneys, selDesired, selPrep, selBuffer, selPc, selResult>>
resVars == <<resCommutes, resNow, resPc, resResult, occPc, occResult, wbnPc, wbnResult>>

storeVars == <<storedCommutes, storedAlarmTime, storedHistory, storedWeekSettings, weekSettings>>
deviceVars == <<notifications, nativeAlarms>>
clientVars == <<cache, providers, timers>>
recVars == <<clock, storeVars, deviceVars, clientVars, proc, cycles, round>>

apiVars == <<api, apiCalls>>

vars == <<selVars, resVars, recVars, apiVars>>

\* The parts of the state a specification does not exercise rest here.
SelIdle ==
    /\ selJourneys = <<>> /\ selDesired = 0 /\ selPrep = 0 /\ selBuffer = 0
    /\ selPc = "idle" /\ selResult = NoSelection

ResIdle ==
    /\ resCommutes = <<>> /\ resNow = 0 /\ resPc = "idle" /\ resResult = <<>>
    /\ occPc = "idle" /\ occResult = <<>> /\ wbnPc = "idle"
    /\ wbnResult = [editingCommute |-> <<>>, nextWeek |-> FALSE, alert |-> "", saved |-> FALSE]

NoRound == [base |-> [alarm |-> Null, history |-> <<>>], ran |-> {}, valid |-> FALSE]

RecIdle ==
    /\ clock = 1
    /\ storedCommutes = Null /\ storedAlarmTime = Null /\ storedHistory = <<>>
    /\ storedWeekSettings = FALSE
    /\ weekSettings = [d \in 0..6 |-> <<>>]
    /\ notifications = {} /\ nativeAlarms = {}
    /\ cache = {}
    /\ providers = <<[name |-> "DB Transport REST", isAvailable |-> TRUE, lastError |-> Null]>>
    /\ timers = <<>>
    /\ proc = [p \in Triggers |-> IdleProc]
    /\ cycles = 0
    /\ round = NoRound

\* A call of the API client: its position and the locals it carries over
\* awaits.
\*   key, provider : cacheKey and the index of the provider it chose
\*   attempt, lastError : fetchWithRetry's loop variable and lastError
\*     (<<>> for null)
\*   attempts, delays : fetch() calls made and sleeps taken in this call
\*   outcome : <<what its latest fetch() settled to>>
\*   hit : the call was answered by getCached
\*   evicted : its getCached deleted an expired entry
\*   result : <<data>> once the call returned
\*   thrown : <<the Error that reached the call's catch block>>
IdleCall ==
    [pc |-> "idle", key |-> <<>>, provider |-> 0, attempt |-> 0, lastError |-> <<>>,
     attempts |-> 0, delays |-> <<>>, outcome |-> <<>>, hit |-> FALSE, evicted |-> FALSE,
     result |-> <<>>,
     thrown |-> <<>>]

ApiCalls == { "stations", "journeys" }

ApiIdle ==
    /\ api = [c \in ApiCalls |-> IdleCall]
    /\ apiCalls = 0

\* ------------------------------------------------------------------------
\* Inputs of the selector specification
\* ------------------------------------------------------------------------
\* hh:mm:00 on day 0 as an ISO string (seconds)
At(h, m) == h * 3600 + m * 60

JourneyPool ==
    { Journey(<<Leg(At(18, 40), Null, At(19, 4), Null)>>),
      Journey(<<Leg(At(18, 55), 0, At(19, 19), 0)>>),
      Journey(<<Leg(At(19, 10), 0, At(19, 34), 900)>>),
      Journey(<<Leg(At(19, 10), Null, At(19, 34), Null)>>),
      Journey(<<Leg(At(19, 20), 300, At(19, 45), 0)>>),
      Journey(<<Leg(At(18, 30), 600, At(18, 50), 600),
                Leg(At(19, 5), Null, At(19, 40), Null)>>),
      Journey(<<Leg(At(18, 55), Null, At(19, 30), -60)>>),
      Journey(<<>>) }

SeqsUpTo(S, n) == UNION { [1..k -> S] : k \in 0..n }

SelInit ==
    /\ selJourneys \in SeqsUpTo(JourneyPool, MaxJourneys)
    /\ selDesired \in { parseISO(At(19, 45)), parseISO(At(19, 30)) }
    /\ selPrep \in { 10, 30 }
    /\ selBuffer \in { 0, 5, 15 }
    /\ selPc = "call"
    /\ selResult = NoSelection
    /\ ResIdle
    /\ RecIdle
    /\ ApiIdle

SelectCall ==
    /\ selPc = "call"
    /\ selResult' = selectOptimalJourney(selJourneys, selDesired, selPrep, selBuffer)
    /\ selPc' = "done"
    /\ UNCHANGED <<selJourneys, selDesired, selPrep, selBuffer>>
    /\ UNCHANGED <<resVars, recVars, apiVars>>

SelNext == SelectCall

SpecSelect == SelInit /\ [][SelNext]_vars

\* ------------------------------------------------------------------------
\* Properties of the Journey Selector
\* ------------------------------------------------------------------------
\* The quantities the properties speak of, written out from their wording:
\* delay-adjusted arrival of the last leg, delay-adjusted departure of the
\* first leg, and the deadline desiredArrival - safetyBuffer.
SelDeadline == selDesired - selBuffer * MsPerMinute
DelayMs(d) == IF d = Null THEN 0 ELSE d * MsPerSecond
AdjArrival(j) ==
    j.legs[Len(j.legs)].plannedArrival * MsPerSecond + DelayMs(j.legs[Len(j.legs)].arrivalDelay)
AdjDeparture(j) ==
    j.legs[1].plannedDeparture * MsPerSecond + DelayMs(j.legs[1].departureDelay)
SelViableAt(i) ==
    /\ Len(selJourneys[i].legs) > 0
    /\ AdjArrival(selJourneys[i]) <= SelDeadline
SelSomeViable == \E i \in 1..Len(selJourneys) : SelViableAt(i)
SelReturnedJourney == selResult.journey[1]

\* C1 (latest-safe): when the list holds a viable journey, the call returns
\* a viable journey of the list whose delay-adjusted departure is at least
\* that of every viable journey of the list.
C1_LatestSafe ==
    (selPc = "done" /\ SelSomeViable) =>
        /\ ~selResult.threw
        /\ selResult.journey # <<>>
        /\ \E i \in 1..Len(selJourneys) :
              SelViableAt(i) /\ selJourneys[i] = SelReturnedJourney
        /\ \A i \in 1..Len(selJourneys) :
              SelViableAt(i) => AdjDeparture(SelReturnedJourney) >= AdjDeparture(selJourneys[i])

\* Reached: two viable journeys with different departures, the later one
\* not first in the list, and it is the one returned.
C1_Witness ==
    /\ selPc = "done"
    /\ \E i, k \in 1..Len(selJourneys) :
          /\ i < k
          /\ SelViableAt(i) /\ SelViableAt(k)
          /\ AdjDeparture(selJourneys[i]) < AdjDeparture(selJourneys[k])
          /\ selResult.journey = <<selJourneys[k]>>

\* C2 (safety): when the list holds a viable journey, the returned journey's
\* delay-adjusted arrival is at most desiredArrival - safetyBuffer.
C2_SafeArrival ==
    (selPc = "done" /\ SelSomeViable) =>
        /\ selResult.journey # <<>>
        /\ Len(SelReturnedJourney.legs) > 0
        /\ AdjArrival(SelReturnedJourney) <= SelDeadline

\* Reached: a viable journey is returned while the list also holds a later
\* departure that only its arrival delay, or arriving exactly at
\* desiredArrival under a positive buffer, keeps from being viable.
C2_Witness ==
    /\ selPc = "done"
    /\ SelSomeViable
    /\ selBuffer > 0
    /\ selResult.journey # <<>>
    /\ \E i, k \in 1..Len(selJourneys) :
          /\ Len(selJourneys[i].legs) > 0 /\ Len(selJourneys[k].legs) > 0
          /\ selJourneys[i].legs[Len(selJourneys[i].legs)].plannedArrival * MsPerSecond <= SelDeadline
          /\ AdjArrival(selJourneys[i]) > SelDeadline
          /\ AdjDeparture(selJourneys[i]) > AdjDeparture(SelReturnedJourney)
          /\ AdjArrival(selJourneys[k]) = selDesired
          /\ AdjDeparture(selJourneys[k]) > AdjDeparture(SelReturnedJourney)

\* C10 (fallback): on a non-empty list with no viable journey the call does
\* not throw and returns the first journey of the list with the warning
\* reasoning and alarmTime = its delay-adjusted departure - prepMinutes.
C10_FallbackNeverThrows ==
    (selPc = "done" /\ Len(selJourneys) > 0 /\ ~SelSomeViable) =>
        /\ ~selResult.threw
        /\ selResult.journey = <<selJourneys[1]>>
        /\ selResult.reasoning = "No train arrives by deadline. Using earliest."
        /\ Len(selJourneys[1].legs) > 0 =>
              selResult.alarmTime = AdjDeparture(selJourneys[1]) - selPrep * MsPerMinute

\* C11 (alarm time and viability use the delays): whenever the call returns
\* a journey, alarmTime is that journey's first-leg plannedDeparture plus
\* departureDelay (null as 0) less prepMinutes, in the viable and in the
\* fallback path alike; and the viable path is taken exactly when some
\* journey's last-leg plannedArrival plus arrivalDelay is within the
\* deadline, the returned journey then being such a journey.
C11_AlarmFromDelayedDeparture ==
    (selPc = "done" /\ ~selResult.threw /\ selResult.journey # <<>>) =>
        /\ Len(SelReturnedJourney.legs) > 0
        /\ selResult.alarmTime = AdjDeparture(SelReturnedJourney) - selPrep * MsPerMinute
        /\ (selResult.reasoning = "Taking train") = SelSomeViable
        /\ SelSomeViable => AdjArrival(SelReturnedJourney) <= SelDeadline

\* Reached: the fallback path returned a journey whose first leg is delayed.
C11_Witness ==
    /\ selPc = "done"
    /\ ~selResult.threw
    /\ selResult.journey # <<>>
    /\ selResult.reasoning = "No train arrives by deadline. Using earliest."
    /\ SelReturnedJourney.legs[1].departureDelay # Null
    /\ SelReturnedJourney.legs[1].departureDelay > 0
    /\ selResult.alarmTime = AdjDeparture(SelReturnedJourney) - selPrep * MsPerMinute

\* The viable journeys of the list with the latest delay-adjusted
\* departure, by their place in the list.
SelLatestViable ==
    { i \in 1..Len(selJourneys) :
        /\ SelViableAt(i)
        /\ \A k \in 1..Len(selJourneys) :
             SelViableAt(k) => AdjDeparture(selJourneys[k]) <= AdjDeparture(selJourneys[i]) }

\* C27: of the viable journeys that share the latest delay-adjusted
\* departure, the call returns the one that comes first in the list, with
\* its index and the alarm time computed from it.
C27_FirstOfEqualWins ==
    (selPc = "done" /\ SelSomeViable) =>
        \E i \in SelLatestViable :
            /\ \A k \in SelLatestViable : i <= k
            /\ selResult.selectedLegIndex = i - 1
            /\ selResult.journey = <<selJourneys[i]>>
            /\ selResult.alarmTime = AdjDeparture(selJourneys[i]) - selPrep * MsPerMinute

\* Two different viable journeys share the latest departure and the first
\* of them is returned.
C27_Witness ==
    /\ selPc = "done"
    /\ \E i, k \in SelLatestViable :
          /\ i < k
          /\ selJourneys[i] # selJourneys[k]
          /\ selResult.journey = <<selJourneys[i]>>
          /\ selResult.selectedLegIndex = i - 1

\* ------------------------------------------------------------------------
\* Inputs of the resolver specification
\* ------------------------------------------------------------------------
\* hh:mm on day d as an instant
AtDay(d, h, m) == d * MsPerDay + h * MsPerHour + m * MsPerMinute

ResCommutePool ==
    { Commute(1, en, days, TRUE, Null, at, 1, 2, 30, 5) :
        en \in BOOLEAN, days \in { <<0>>, <<1>>, <<0, 1>>, <<2, 5>>, <<>> },
        at \in { <<8, 0>>, <<9, 0>> } }
    \cup
    { Commute(2, en, <<>>, FALSE, d, at, 1, 2, 30, 5) :
        en \in BOOLEAN, d \in { 0, 1, 9 }, at \in { <<8, 0>>, <<9, 0>> } }

ResClock == { AtDay(0, 7, 0), AtDay(0, 8, 0), AtDay(0, 8, 30), AtDay(1, 8, 30), AtDay(1, 9, 1) }

ResInit ==
    /\ resCommutes \in SeqsUpTo(ResCommutePool, MaxCommutes)
    /\ resNow \in ResClock
    /\ resPc = "call"
    /\ resResult = <<>>
    /\ occPc = "idle" /\ occResult = <<>> /\ wbnPc = "idle"
    /\ wbnResult = [editingCommute |-> <<>>, nextWeek |-> FALSE, alert |-> "", saved |-> FALSE]
    /\ SelIdle
    /\ RecIdle
    /\ ApiIdle

ResolveCall ==
    /\ resPc = "call"
    /\ resResult' = findNextActiveCommute(resCommutes, resNow)
    /\ resPc' = "done"
    /\ UNCHANGED <<resCommutes, resNow, occPc, occResult, wbnPc, wbnResult>>
    /\ UNCHANGED <<selVars, recVars, apiVars>>

ResNext == ResolveCall

SpecResolve == ResInit /\ [][ResNext]_vars

\* ------------------------------------------------------------------------
\* Commutes screen: the list of commutes and the save of an edited commute
\* ------------------------------------------------------------------------
\* The list saveAndClose stores; 0 stands for findIndex's -1.
updatedCommutes(commutes, editingCommute) ==
    LET found == { k \in 1..Len(commutes) : commutes[k].id = editingCommute.id }
        existingIdx == IF found = {} THEN 0
                       ELSE CHOOSE k \in found : \A j \in found : k <= j
    IN IF existingIdx > 0
       THEN [commutes EXCEPT ![existingIdx] = editingCommute]
       ELSE Append(commutes, editingCommute)

\* The stored list: commutes of the resolver's pool or one without a start
\* station, their ids distinct (uuidv4).
OccInit ==
    /\ LET NoStationEntry == Commute(3, TRUE, <<0>>, TRUE, Null, <<8, 0>>, Null, 2, 30, 5)
           DistinctIds(cs) == \A i, k \in 1..Len(cs) : cs[i].id = cs[k].id => i = k
       IN resCommutes \in { cs \in SeqsUpTo(ResCommutePool \cup { NoStationEntry }, MaxCommutes) :
                              DistinctIds(cs) }
    /\ resNow \in ResClock
    /\ resPc = "call"
    /\ resResult = <<>>
    /\ occPc = "render"
    /\ occResult = <<>>
    /\ wbnPc = "save"
    /\ wbnResult = [editingCommute |-> <<>>, nextWeek |-> FALSE, alert |-> "", saved |-> FALSE]
    /\ SelIdle
    /\ RecIdle
    /\ ApiIdle

\* The list renders every item with renderCommuteItem.
RenderCommuteItems ==
    /\ occPc = "render"
    /\ occResult' = [k \in 1..Len(resCommutes) |->
                       [next |-> getNextOccurrence(resCommutes[k], resNow),
                        label |-> formatNextOccurrence(resCommutes[k], resNow)]]
    /\ occPc' = "shown"
    /\ UNCHANGED <<resCommutes, resNow, resPc, resResult, wbnPc, wbnResult>>
    /\ UNCHANGED <<selVars, recVars, apiVars>>

\* handleSaveCommute on a commute opened from the list.
HandleSaveCommute ==
    /\ wbnPc = "save"
    /\ \E k \in 1..Len(resCommutes) :
         LET editingCommute == resCommutes[k]
             nextWeek == editingCommute.isRecurring
                           /\ wouldBeNextWeek(editingCommute.arrivalTime, editingCommute.days, resNow)
             asked == [editingCommute |-> <<editingCommute>>, nextWeek |-> nextWeek,
                       alert |-> "", saved |-> FALSE]
         IN IF editingCommute.startStation = Null \/ editingCommute.destinationStation = Null
            THEN /\ wbnResult' = [asked EXCEPT !.nextWeek = FALSE, !.alert = "Missing Info"]
                 /\ wbnPc' = "done"
                 /\ UNCHANGED resCommutes
            ELSE IF editingCommute.isRecurring /\ Len(editingCommute.days) = 0
            THEN /\ wbnResult' = [asked EXCEPT !.nextWeek = FALSE, !.alert = "No Days Selected"]
                 /\ wbnPc' = "done"
                 /\ UNCHANGED resCommutes
            ELSE IF nextWeek
            THEN /\ wbnResult' = [asked EXCEPT !.alert = "Alarm Scheduled for Next Week"]
                 /\ wbnPc' = "asked"
                 /\ UNCHANGED resCommutes
            ELSE /\ wbnResult' = [asked EXCEPT !.saved = TRUE]
                 /\ wbnPc' = "done"
                 /\ resCommutes' = updatedCommutes(resCommutes, editingCommute)
    /\ UNCHANGED <<resNow, resPc, resResult, occPc, occResult>>
    /\ UNCHANGED <<selVars, recVars, apiVars>>

\* The dialog is answered: OK calls saveAndClose, Cancel closes it.
AlertAnswered ==
    /\ wbnPc = "asked"
    /\ \E ok \in BOOLEAN :
         /\ resCommutes' = IF ok THEN updatedCommutes(resCommutes, wbnResult.editingCommute[1])
                           ELSE resCommutes
         /\ wbnResult' = [wbnResult EXCEPT !.saved = ok]
    /\ wbnPc' = "done"
    /\ UNCHANGED <<resNow, resPc, resResult, occPc, occResult>>
    /\ UNCHANGED <<selVars, recVars, apiVars>>

OccNext ==
    \/ ResolveCall
    \/ RenderCommuteItems
    \/ HandleSaveCommute
    \/ AlertAnswered

SpecOccurrence == OccInit /\ [][OccNext]_vars

\* ------------------------------------------------------------------------
\* Properties of the Occurrence Resolver
\* ------------------------------------------------------------------------
ResToday == resNow \div MsPerDay
ResTimeOn(d, c) == d * MsPerDay + c.arrivalTime[1] * MsPerHour + c.arrivalTime[2] * MsPerMinute

\* C6 (occurrence wraparound): a weekly commute enabled only on today's
\* weekday whose arrivalTime today has passed resolves to today + 7 days at
\* arrivalTime.
C6_WrapsToNextWeek ==
    (/\ resPc = "done"
     /\ Len(resCommutes) = 1
     /\ resCommutes[1].enabled
     /\ resCommutes[1].isRecurring
     /\ resCommutes[1].days = <<ResToday % 7>>
     /\ ResTimeOn(ResToday, resCommutes[1]) < resNow)
    => /\ resResult # <<>>
       /\ resResult[1].commute = resCommutes[1]
       /\ resResult[1].commuteDate = ResTimeOn(ResToday + 7, resCommutes[1])

\* The dates commute c is a candidate with at resNow (none or one): a
\* one-time commute at oneTimeDate unless that has passed, a recurring one
\* at the first day offset in 0..6 whose weekday it runs on, today not
\* counting once its time has passed.
ResOffsets(c) ==
    { i \in 0..6 : /\ \E k \in 1..Len(c.days) : c.days[k] = (ResToday + i) % 7
                   /\ ~(i = 0 /\ ResTimeOn(ResToday, c) < resNow) }

ResCandidates(c) ==
    IF ~c.enabled THEN {}
    ELSE IF ~c.isRecurring /\ c.oneTimeDate # Null
         THEN { d \in { ResTimeOn(c.oneTimeDate, c) } : ~(d < resNow) }
         ELSE { ResTimeOn(ResToday + i, c) :
                  i \in { j \in ResOffsets(c) : \A m \in ResOffsets(c) : j <= m } }

ResAllCandidates == UNION { ResCandidates(resCommutes[k]) : k \in 1..Len(resCommutes) }

ResReversed == [k \in 1..Len(resCommutes) |-> resCommutes[Len(resCommutes) + 1 - k]]

C30_ResultShape ==
    (resPc = "done" /\ resResult # <<>>) =>
        LET c == resResult[1].commute
            date == resResult[1].commuteDate
        IN /\ c.enabled
           /\ \E k \in 1..Len(resCommutes) : resCommutes[k] = c
           /\ (~c.isRecurring /\ c.oneTimeDate # Null) =>
                 date = c.oneTimeDate * MsPerDay + c.arrivalTime[1] * MsPerHour
                          + c.arrivalTime[2] * MsPerMinute
           /\ c.isRecurring =>
                 \E i \in 0..6 :
                    /\ date = ResTimeOn(ResToday + i, c)
                    /\ \E k \in 1..Len(c.days) : c.days[k] = (ResToday + i) % 7
                    /\ \A j \in 0..(i - 1) :
                         \/ \A k \in 1..Len(c.days) : c.days[k] # (ResToday + j) % 7
                         \/ ResTimeOn(ResToday + j, c) < resNow

\* C30 as amended: every result has the shape C30_ResultShape describes and
\* a commuteDate that is not before the clock.
C30_ResultNotPast ==
    /\ C30_ResultShape
    /\ (resPc = "done" /\ resResult # <<>>) => resResult[1].commuteDate >= resNow

\* The commute returned is due at the very instant of the call.
C30_Witness ==
    /\ resPc = "done"
    /\ resResult # <<>>
    /\ resResult[1].commute.enabled
    /\ resResult[1].commuteDate = resNow

\* C30 as stated: every result has the shape C30_ResultShape describes and
\* a commuteDate strictly after the clock.
C30_ResultInFuture ==
    /\ C30_ResultShape
    /\ (resPc = "done" /\ resResult # <<>>) => resResult[1].commuteDate > resNow

\* ------------------------------------------------------------------------
\* Alarm Reconciler: inputs
\* ------------------------------------------------------------------------
\* The instants at which something runs.
ClockPoints == <<AtDay(0, 6, 0), AtDay(0, 6, 40), AtDay(0, 7, 0)>>

now == ClockPoints[clock]

WorkCommute == Commute(1, TRUE, <<0, 1>>, TRUE, Null, <<8, 0>>, 1, 2, 30, 5)
NoStationCommute == Commute(2, TRUE, <<0, 1>>, TRUE, Null, <<8, 0>>, 1, Null, 30, 5)
DisabledCommute == Commute(3, FALSE, <<0, 1>>, TRUE, Null, <<8, 0>>, 1, 2, 30, 5)

\* What '@NeverBeLate:commutes' may hold: <<>> when never written, else
\* <<commutes>>.
StoredCommutesChoices ==
    { <<>>, << <<WorkCommute>> >>, << <<NoStationCommute>> >>, << <<DisabledCommute>> >> }

\* The alarm an earlier cycle armed for the 06:30 wake-up.
EarlierAlarm == AtDay(0, 6, 30)

EmptyWeek == [d \in 0..6 |-> <<>>]
WeekSettingsChoices == { EmptyWeek, [EmptyWeek EXCEPT ![0] = <<WorkCommute>>] }

\* ISO string of the instant `minutes` before commuteDate.
Before(commuteDate, minutes) == formatISO(commuteDate) - minutes * 60

\* What the journeys endpoint may answer for an arrival at commuteDate.
UpstreamLists(commuteDate) ==
    { <<Journey(<<Leg(Before(commuteDate, 60), Null, Before(commuteDate, 35), Null)>>),
        Journey(<<Leg(Before(commuteDate, 40), 0, Before(commuteDate, 15), 0)>>)>>,
      <<Journey(<<Leg(Before(commuteDate, 40), 300, Before(commuteDate, 15), 300)>>)>>,
      <<Journey(<<Leg(Before(commuteDate, 40), Null, Before(commuteDate, 15), Null)>>)>>,
      <<Journey(<<>>)>>,
      <<>> }

\* ------------------------------------------------------------------------
\* Alarm Reconciler: the steps of a cycle
\* ------------------------------------------------------------------------
Running(q) == proc[q].pc \notin { "idle", "done" }

\* Bookkeeping at the start of a cycle: a round begins when no other cycle
\* is in flight, and stays valid while every trigger runs at most once in it.
StartRound(p) ==
    IF \A q \in Triggers : ~Running(q)
    THEN [base |-> [alarm |-> storedAlarmTime, history |-> storedHistory],
          ran |-> {p}, valid |-> TRUE]
    ELSE [round EXCEPT !.ran = @ \cup {p}, !.valid = @ /\ p \notin round.ran]

StartedCycle(nextDate, commute) ==
    [IdleProc EXCEPT !.pc = "fetch", !.commuteDate = nextDate,
                     !.prep = commute.preparationTime,
                     !.buffer = OrDefault(commute.safetyBuffer, DEFAULT_SAFETY_BUFFER),
                     !.from = commute.startStation, !.to = commute.destinationStation]

\* Variant of a cycle's early return that goes on to the journey request.
FinishedCycleFetching == [IdleProc EXCEPT !.pc = "fetch"]

FinishedCycle == [IdleProc EXCEPT !.pc = "done"]

\* BackgroundFetch.finish(taskId)
BackgroundFetchFinish(rec) == [rec EXCEPT !.finishes = @ + 1]

\* A return inside backgroundTask's try block: the finish of the branch,
\* then the finish of the finally block.
ReturnedEarly(rec) == BackgroundFetchFinish(BackgroundFetchFinish(rec))

\* backgroundTask up to the journey request: no stored commutes, no due
\* commute or a missing station end the task.
BgStart ==
    /\ ~Running("bg")
    /\ cycles < MaxCycles
    /\ cycles' = cycles + 1
    /\ round' = StartRound("bg")
    /\ LET nextCommute == IF storedCommutes = <<>> THEN <<>>
                          ELSE findNextActiveCommute(storedCommutes[1], now)
       IN proc' = [proc EXCEPT !["bg"] =
            IF nextCommute = <<>> THEN ReturnedEarly(FinishedCycle)
            ELSE IF nextCommute[1].commute.startStation = Null
                    \/ nextCommute[1].commute.destinationStation = Null
                 THEN ReturnedEarly(FinishedCycle)
                 ELSE StartedCycle(nextCommute[1].commuteDate, nextCommute[1].commute)]
    /\ UNCHANGED <<clock, storeVars, deviceVars, clientVars, selVars, resVars, apiVars>>

\* DashboardScreen.loadData up to the journey request.
FgStart ==
    /\ ~Running("fg")
    /\ cycles < MaxCycles
    /\ cycles' = cycles + 1
    /\ round' = StartRound("fg")
    /\ LET nextCommute == IF storedCommutes = <<>> THEN <<>>
                          ELSE findNextActiveCommute(storedCommutes[1], now)
       IN proc' = [proc EXCEPT !["fg"] =
            IF nextCommute = <<>> THEN FinishedCycle
            ELSE IF nextCommute[1].commute.startStation # Null
                    /\ nextCommute[1].commute.destinationStation # Null
                 THEN StartedCycle(nextCommute[1].commuteDate, nextCommute[1].commute)
                 ELSE FinishedCycle]
    /\ UNCHANGED <<clock, storeVars, deviceVars, clientVars, selVars, resVars, apiVars>>

\* handleSaveAll up to the journey request: the week settings are stored,
\* then the legacy resolver runs on the screen's weekSettings.
StStart ==
    /\ ~Running("st")
    /\ cycles < MaxCycles
    /\ cycles' = cycles + 1
    /\ round' = StartRound("st")
    /\ storedWeekSettings' = TRUE
    /\ LET nextCommute == findNextActiveCommuteLegacy(weekSettings, now)
       IN proc' = [proc EXCEPT !["st"] =
            IF nextCommute = <<>> THEN FinishedCycle
            ELSE IF nextCommute[1].settings.startStation # Null
                    /\ nextCommute[1].settings.destinationStation # Null
                 THEN [StartedCycle(nextCommute[1].commuteDate, nextCommute[1].settings)
                         EXCEPT !.effects = {"weekSettings"}]
                 ELSE [FinishedCycle EXCEPT !.effects = {"weekSettings"}]]
    /\ UNCHANGED <<clock, storedCommutes, storedAlarmTime, storedHistory, weekSettings,
                   deviceVars, clientVars, selVars, resVars, apiVars>>

\* backgroundTask after the journeys arrived: first leg of the first
\* journey, the alarm time from it, and the past check.
BgAfterFetch(rec, journeys) ==
    LET leg == firstLegOfFirst(journeys)
        got == [rec EXCEPT !.fetched = TRUE, !.journeys = journeys]
    IN IF leg = <<>> THEN ReturnedEarly([got EXCEPT !.pc = "done"])
       ELSE LET newAlarmTime == alarmFromLeg(leg[1], rec.prep)
                judged == [got EXCEPT !.leg = leg, !.cand = newAlarmTime, !.evalNow = now]
            IN IF isPast(newAlarmTime, now) THEN ReturnedEarly([judged EXCEPT !.pc = "done"])
               ELSE [judged EXCEPT !.pc = "readOld"]

\* Variant of loadData that writes the selected alarm time without asking
\* whether it is in the past.
FgAfterFetchNoPastCheck(rec, journeys) ==
    LET selection == selectOptimalJourney(journeys, rec.commuteDate, rec.prep, rec.buffer)
        got == [rec EXCEPT !.fetched = TRUE, !.journeys = journeys]
    IN IF selection.threw THEN [got EXCEPT !.pc = "done", !.error = TRUE]
       ELSE IF selection.journey # <<>> /\ selection.alarmTime # Null
            THEN [got EXCEPT !.leg = getFirstLeg(selection.journey),
                             !.cand = selection.alarmTime, !.evalNow = now,
                             !.pc = "persist"]
            ELSE [got EXCEPT !.pc = "done"]

\* loadData after the journeys arrived: the selector, then the past check.
\* A throw of the selector lands in the catch block (error state).
FgAfterFetch(rec, journeys) ==
    LET selection == selectOptimalJourney(journeys, rec.commuteDate, rec.prep, rec.buffer)
        got == [rec EXCEPT !.fetched = TRUE, !.journeys = journeys]
    IN IF selection.threw THEN [got EXCEPT !.pc = "done", !.error = TRUE]
       ELSE IF selection.journey # <<>> /\ selection.alarmTime # Null
            THEN LET judged == [got EXCEPT !.leg = getFirstLeg(selection.journey),
                                           !.cand = selection.alarmTime, !.evalNow = now]
                 IN IF ~isPast(selection.alarmTime, now) THEN [judged EXCEPT !.pc = "persist"]
                    ELSE [judged EXCEPT !.pc = "done"]
            ELSE [got EXCEPT !.pc = "done"]

\* handleSaveAll after the journeys arrived: the selector; no past check.
StAfterFetch(rec, journeys) ==
    LET selection == selectOptimalJourney(journeys, rec.commuteDate, rec.prep, rec.buffer)
        got == [rec EXCEPT !.fetched = TRUE, !.journeys = journeys]
    IN IF selection.threw THEN [got EXCEPT !.pc = "done", !.error = TRUE]
       ELSE LET leg == getFirstLeg(selection.journey)
            IN IF leg # <<>> /\ selection.alarmTime # Null
               THEN [got EXCEPT !.leg = leg, !.cand = selection.alarmTime,
                                !.evalNow = now, !.pc = "persist"]
               ELSE [got EXCEPT !.pc = "done"]

AfterFetch(p, rec, journeys) ==
    IF p = "bg" THEN BgAfterFetch(rec, journeys)
    ELSE IF p = "fg" THEN FgAfterFetch(rec, journeys)
    ELSE StAfterFetch(rec, journeys)

\* Variant of the failure path that arms a guess, the commute's arrival
\* time less the preparation time, instead of ending the cycle.
AfterFetchFailedGuess(p, rec) ==
    [rec EXCEPT !.pc = "persist", !.fetchFailed = TRUE, !.error = (p # "bg"),
                !.cand = rec.commuteDate - rec.prep * MsPerMinute, !.evalNow = now]

\* findJourneyByArrival threw: the background task logs it, the dashboard
\* sets its error message, the settings screen shows its error alert.
AfterFetchFailed(p, rec) ==
    LET caught == [rec EXCEPT !.pc = "done", !.fetchFailed = TRUE, !.error = (p # "bg")]
    IN IF p = "bg" THEN BackgroundFetchFinish(caught) ELSE caught

journeyKey(rec) == cacheKey(rec.from, rec.to, formatISO(rec.commuteDate))

\* API_PROVIDERS.find(p => p.isAvailable), with nothing to fall back on
\* (0: no provider).
selectAvailableProvider(provs) ==
    IF \E i \in 1..Len(provs) : provs[i].isAvailable
    THEN CHOOSE i \in 1..Len(provs) :
            provs[i].isAvailable /\ \A k \in 1..(i - 1) : ~provs[k].isAvailable
    ELSE 0

\* API_PROVIDERS.find(p => p.isAvailable) || API_PROVIDERS[0]
selectProvider(provs) ==
    IF \E i \in 1..Len(provs) : provs[i].isAvailable
    THEN CHOOSE i \in 1..Len(provs) :
            provs[i].isAvailable /\ \A k \in 1..(i - 1) : ~provs[k].isAvailable
    ELSE 1

\* findJourneyByArrival answered from the cache.
FetchCached(p) ==
    /\ proc[p].pc = "fetch"
    /\ cacheLookup(cache, journeyKey(proc[p]), now) # <<>>
    /\ proc' = [proc EXCEPT ![p] =
                  AfterFetch(p, proc[p], cacheLookup(cache, journeyKey(proc[p]), now)[1])]
    /\ UNCHANGED <<clock, storeVars, deviceVars, clientVars, cycles, round, selVars, resVars, apiVars>>

\* findJourneyByArrival misses the cache (an expired entry is dropped), picks
\* the provider and sends the request.
FetchSend(p) ==
    /\ proc[p].pc = "fetch"
    /\ cacheLookup(cache, journeyKey(proc[p]), now) = <<>>
    /\ cache' = cacheAfterLookup(cache, journeyKey(proc[p]), now)
    /\ proc' = [proc EXCEPT ![p].pc = "response", ![p].old = selectProvider(providers)]
    /\ UNCHANGED <<clock, storeVars, deviceVars, providers, timers, cycles, round, selVars, resVars, apiVars>>

\* The request succeeded: the response is cached and handed to the cycle.
FetchOk(p) ==
    /\ proc[p].pc = "response"
    /\ \E journeys \in UpstreamLists(proc[p].commuteDate) :
         /\ cache' = cacheAfterSet(cache, journeyKey(proc[p]), journeys, JOURNEY_CACHE_MS, now)
         /\ proc' = [proc EXCEPT ![p] = AfterFetch(p, [proc[p] EXCEPT !.old = Null], journeys)]
    /\ UNCHANGED <<clock, storeVars, deviceVars, providers, timers, cycles, round, selVars, resVars, apiVars>>

\* The request failed for good: the provider is marked unavailable, a timer
\* is set to re-enable it, and the error goes to the caller.
FetchFail(p) ==
    /\ proc[p].pc = "response"
    /\ providers' = [providers EXCEPT ![proc[p].old].isAvailable = FALSE,
                                      ![proc[p].old].lastError = now]
    /\ timers' = Append(timers, [due |-> now + PROVIDER_COOLDOWN_MS, provider |-> proc[p].old])
    /\ proc' = [proc EXCEPT ![p] = AfterFetchFailed(p, [proc[p] EXCEPT !.old = Null])]
    /\ UNCHANGED <<clock, storeVars, deviceVars, cache, cycles, round, selVars, resVars, apiVars>>

\* A re-enable timer that is due fires.
ProviderTimerFires ==
    /\ \E i \in 1..Len(timers) :
         /\ timers[i].due <= now
         /\ providers' = [providers EXCEPT ![timers[i].provider].isAvailable = TRUE]
         /\ timers' = SubSeq(timers, 1, i - 1) \o SubSeq(timers, i + 1, Len(timers))
    /\ UNCHANGED <<clock, storeVars, deviceVars, cache, proc, cycles, round, selVars, resVars, apiVars>>

\* backgroundTask: read the stored alarm time and compare.
BgReadOld ==
    /\ proc["bg"].pc = "readOld"
    /\ proc' = [proc EXCEPT !["bg"].old = storedAlarmTime,
                            !["bg"].same = (storedAlarmTime = formatISO(proc["bg"].cand)),
                            !["bg"].pc = IF storedAlarmTime # formatISO(proc["bg"].cand)
                                         THEN "persist" ELSE "done",
                            !["bg"].finishes = IF storedAlarmTime # formatISO(proc["bg"].cand)
                                               THEN @ ELSE @ + 1]
    /\ UNCHANGED <<clock, storeVars, deviceVars, clientVars, cycles, round, selVars, resVars, apiVars>>

\* AsyncStorage.setItem(ALARM_TIME_KEY, formatISO(alarmTime)).
Persist(p) ==
    /\ proc[p].pc = "persist"
    /\ storedAlarmTime' = formatISO(proc[p].cand)
    /\ proc' = [proc EXCEPT
                  ![p].effects = @ \cup {"alarm"},
                  ![p].same = IF p = "bg" THEN @ ELSE storedAlarmTime = formatISO(proc[p].cand),
                  ![p].pc = IF p = "fg" /\ proc[p].leg = <<>> THEN "done" ELSE "notify"]
    /\ UNCHANGED <<clock, storedCommutes, storedHistory, storedWeekSettings, weekSettings,
                   deviceVars, clientVars, cycles, round, selVars, resVars, apiVars>>

\* Variant that schedules the native alarm without asking whether AlarmKit
\* is available.
AfterNotifyUnchecked(p) ==
    IF p = "bg" THEN (IF proc[p].old # Null THEN "readHistory" ELSE "done")
    ELSE "nativeCancel"

\* Variant that logs an adjustment whether or not a value had been stored.
AfterNotifyAlwaysLogs(p) ==
    IF p = "bg" THEN "readHistory" ELSE "alarmKit"

\* Where a cycle goes on after scheduleAlarmNotification returned.
AfterNotify(p) ==
    IF p = "bg" THEN (IF proc[p].old # Null THEN "readHistory" ELSE "done")
    ELSE "alarmKit"

\* The finish of backgroundTask's finally block when the task ends with
\* scheduleAlarmNotification.
FinishesAfterNotify(p, pc) == IF p = "bg" /\ pc = "done" THEN 1 ELSE 0

\* scheduleAlarmNotification declines an alarm time in the past or less than
\* a minute ahead.
NotifyDeclined(p) ==
    /\ proc[p].pc = "notify"
    /\ notificationDeclined(proc[p].cand, now)
    /\ proc' = [proc EXCEPT ![p].pc = AfterNotify(p),
                            ![p].finishes = @ + FinishesAfterNotify(p, AfterNotify(p))]
    /\ UNCHANGED <<clock, storeVars, deviceVars, clientVars, cycles, round, selVars, resVars, apiVars>>

\* notifee.cancelNotification(ALARM_NOTIFICATION_ID); a rejection is caught
\* and scheduleAlarmNotification returns false.
NotifyCancel(p) ==
    /\ proc[p].pc = "notify"
    /\ ~notificationDeclined(proc[p].cand, now)
    /\ \E ok \in BOOLEAN :
         /\ notifications' = IF ok THEN { n \in notifications : n.id # ALARM_NOTIFICATION_ID }
                             ELSE notifications
         /\ proc' = [proc EXCEPT ![p].effects = @ \cup {"cancelRequest"},
                                 ![p].cancelled = IF ok /\ notifications # {}
                                                  THEN @ \cup {"notification"} ELSE @,
                                 ![p].pc = IF ok THEN "create" ELSE AfterNotify(p),
                                 ![p].finishes = IF ok THEN @
                                                 ELSE @ + FinishesAfterNotify(p, AfterNotify(p))]
    /\ UNCHANGED <<clock, storeVars, nativeAlarms, clientVars, cycles, round, selVars, resVars, apiVars>>

\* notifee.createTriggerNotification under the fixed id; a rejection is
\* caught.
NotifyCreate(p) ==
    /\ proc[p].pc = "create"
    /\ \E ok \in BOOLEAN :
         notifications' =
            IF ok THEN { n \in notifications : n.id # notificationId(proc[p].cand) }
                       \cup { [id |-> notificationId(proc[p].cand), timestamp |-> proc[p].cand] }
            ELSE notifications
    /\ proc' = [proc EXCEPT ![p].effects = @ \cup {"notifyRequest"},
                            ![p].pc = AfterNotify(p),
                            ![p].finishes = @ + FinishesAfterNotify(p, AfterNotify(p))]
    /\ UNCHANGED <<clock, storeVars, nativeAlarms, clientVars, cycles, round, selVars, resVars, apiVars>>

\* backgroundTask: read the history and build the trimmed history.
BgReadHistory ==
    /\ proc["bg"].pc = "readHistory"
    /\ LET rec == proc["bg"]
           adjustment == AlarmAdjustment(now, rec.old, rec.cand,
                                         OrDefault(rec.leg[1].departureDelay, 0))
       IN proc' = [proc EXCEPT !["bg"].hist = slice10(<<adjustment>> \o storedHistory),
                               !["bg"].pc = "writeHistory"]
    /\ UNCHANGED <<clock, storeVars, deviceVars, clientVars, cycles, round, selVars, resVars, apiVars>>

\* backgroundTask: store the trimmed history.
BgWriteHistory ==
    /\ proc["bg"].pc = "writeHistory"
    /\ storedHistory' = proc["bg"].hist
    /\ proc' = [proc EXCEPT !["bg"].effects = @ \cup {"history"}, !["bg"].pc = "done",
                            !["bg"].finishes = @ + 1]
    /\ UNCHANGED <<clock, storedCommutes, storedAlarmTime, storedWeekSettings, weekSettings,
                   deviceVars, clientVars, cycles, round, selVars, resVars, apiVars>>

\* isAlarmKitAvailable(): what the platform reports.
AlarmKitCheck(p) ==
    /\ p \in { "fg", "st" }
    /\ proc[p].pc = "alarmKit"
    /\ \E available \in BOOLEAN :
         proc' = [proc EXCEPT ![p].alarmKit = <<available>>,
                              ![p].pc = IF available THEN "nativeCancel" ELSE "done"]
    /\ UNCHANGED <<clock, storeVars, deviceVars, clientVars, cycles, round, selVars, resVars, apiVars>>

\* AlarmKitService.scheduleAlarm: cancel the alarm under the fixed id
\* (errors ignored).
NativeCancel(p) ==
    /\ proc[p].pc = "nativeCancel"
    /\ \E ok \in BOOLEAN :
         /\ nativeAlarms' = IF ok THEN { a \in nativeAlarms : a.id # ALARM_ID }
                            ELSE nativeAlarms
         /\ proc' = [proc EXCEPT ![p].effects = @ \cup {"nativeCancelRequest"},
                                 ![p].cancelled = IF ok /\ nativeAlarms # {}
                                                  THEN @ \cup {"native"} ELSE @,
                                 ![p].pc = "nativeSchedule"]
    /\ UNCHANGED <<clock, storeVars, notifications, clientVars, cycles, round, selVars, resVars, apiVars>>

\* AlarmKitService.scheduleAlarm: schedule under the fixed id; a rejection
\* is caught.
NativeSchedule(p) ==
    /\ proc[p].pc = "nativeSchedule"
    /\ \E ok \in BOOLEAN :
         nativeAlarms' =
            IF ok THEN { a \in nativeAlarms : a.id # ALARM_ID }
                       \cup { [id |-> ALARM_ID, timestamp |-> proc[p].cand] }
            ELSE nativeAlarms
    /\ proc' = [proc EXCEPT ![p].effects = @ \cup {"nativeRequest"}, ![p].pc = "done"]
    /\ UNCHANGED <<clock, storeVars, notifications, clientVars, cycles, round, selVars, resVars, apiVars>>

\* Time passes.
Tick ==
    /\ clock < Len(ClockPoints)
    /\ clock' = clock + 1
    /\ UNCHANGED <<storeVars, deviceVars, clientVars, proc, cycles, round, selVars, resVars, apiVars>>

\* The device starts with no alarm yet, or with the alarm an earlier first
\* scheduling armed (stored time and pending notification, no history).
RecInit ==
    /\ clock = 1
    /\ storedCommutes \in StoredCommutesChoices
    /\ \/ /\ storedAlarmTime = Null
          /\ notifications = {}
       \/ /\ storedAlarmTime = formatISO(EarlierAlarm)
          /\ notifications = { [id |-> ALARM_NOTIFICATION_ID, timestamp |-> EarlierAlarm] }
    /\ storedHistory = <<>>
    /\ storedWeekSettings = FALSE
    /\ weekSettings \in WeekSettingsChoices
    /\ nativeAlarms = {}
    /\ cache = {}
    /\ providers = <<[name |-> "DB Transport REST", isAvailable |-> TRUE, lastError |-> Null]>>
    /\ timers = <<>>
    /\ proc = [p \in Triggers |-> IdleProc]
    /\ cycles = 0
    /\ round = NoRound
    /\ SelIdle
    /\ ResIdle
    /\ ApiIdle

Next ==
    \/ BgStart
    \/ FgStart
    \/ StStart
    \/ \E p \in Triggers : FetchCached(p)
    \/ \E p \in Triggers : FetchSend(p)
    \/ \E p \in Triggers : FetchOk(p)
    \/ \E p \in Triggers : FetchFail(p)
    \/ ProviderTimerFires
    \/ BgReadOld
    \/ \E p \in Triggers : Persist(p)
    \/ \E p \in Triggers : NotifyDeclined(p)
    \/ \E p \in Triggers : NotifyCancel(p)
    \/ \E p \in Triggers : NotifyCreate(p)
    \/ BgReadHistory
    \/ BgWriteHistory
    \/ \E p \in Triggers : AlarmKitCheck(p)
    \/ \E p \in Triggers : NativeCancel(p)
    \/ \E p \in Triggers : NativeSchedule(p)
    \/ Tick

Spec == RecInit /\ [][Next]_vars

\* ------------------------------------------------------------------------
\* The background task on a device that has a history
\* ------------------------------------------------------------------------
\* The history n earlier background cycles left, one an hour, the train
\* alternately five minutes late and on time; newest first, the newest
\* record being the change to the alarm now stored (EarlierAlarm).
PriorAlarm(k) == IF k % 2 = 1 THEN EarlierAlarm ELSE EarlierAlarm + 5 * MsPerMinute

PriorHistory(n) ==
    [k \in 1..n |->
        AlarmAdjustment(ClockPoints[1] - k * MsPerHour,
                        formatISO(PriorAlarm(k + 1)), PriorAlarm(k),
                        IF k % 2 = 1 THEN 0 ELSE 300)]

HistInit ==
    /\ clock = 1
    /\ storedCommutes = << <<WorkCommute>> >>
    /\ storedAlarmTime = formatISO(EarlierAlarm)
    /\ notifications = { [id |-> ALARM_NOTIFICATION_ID, timestamp |-> EarlierAlarm] }
    /\ storedHistory \in { PriorHistory(n) : n \in 0..HISTORY_LIMIT }
    /\ storedWeekSettings = FALSE
    /\ weekSettings = EmptyWeek
    /\ nativeAlarms = {}
    /\ cache = {}
    /\ providers = <<[name |-> "DB Transport REST", isAvailable |-> TRUE, lastError |-> Null]>>
    /\ timers = <<>>
    /\ proc = [p \in Triggers |-> IdleProc]
    /\ cycles = 0
    /\ round = NoRound
    /\ SelIdle
    /\ ResIdle
    /\ ApiIdle

HistNext ==
    \/ BgStart
    \/ FetchCached("bg")
    \/ FetchSend("bg")
    \/ FetchOk("bg")
    \/ FetchFail("bg")
    \/ ProviderTimerFires
    \/ BgReadOld
    \/ Persist("bg")
    \/ NotifyDeclined("bg")
    \/ NotifyCancel("bg")
    \/ NotifyCreate("bg")
    \/ BgReadHistory
    \/ BgWriteHistory
    \/ Tick

SpecHistory == HistInit /\ [][HistNext]_vars

\* ------------------------------------------------------------------------
\* The background task and the platform's timeout callback
\* ------------------------------------------------------------------------
\* The timeout callback given to BackgroundFetch.configure: the platform
\* calls it once for a task that is still running.
BgTimeout ==
    /\ Running("bg")
    /\ ~proc["bg"].timedOut
    /\ proc' = [proc EXCEPT !["bg"] = BackgroundFetchFinish([@ EXCEPT !.timedOut = TRUE])]
    /\ UNCHANGED <<clock, storeVars, deviceVars, clientVars, cycles, round, selVars, resVars, apiVars>>

BackgroundNext == \/ BgTimeout \/ HistNext

SpecBackground == RecInit /\ [][BackgroundNext]_vars

\* ------------------------------------------------------------------------
\* Deleting a commute on the settings screen, and the background task
\* ------------------------------------------------------------------------
\* commutes.filter(c => c.id !== editingCommute.id)
withoutCommute(commutes, id) == SelectSeq(commutes, LAMBDA c : c.id # id)

\* handleDeleteCommute, the deletion confirmed: the list without the commute
\* is stored.
DeleteCommute ==
    /\ storedCommutes # <<>>
    /\ \E k \in 1..Len(storedCommutes[1]) :
         storedCommutes' = <<withoutCommute(storedCommutes[1], storedCommutes[1][k].id)>>
    /\ UNCHANGED <<clock, storedAlarmTime, storedHistory, storedWeekSettings, weekSettings,
                   deviceVars, clientVars, proc, cycles, round, selVars, resVars, apiVars>>

DeleteNext ==
    \/ DeleteCommute
    \/ HistNext

SpecDelete == HistInit /\ [][DeleteNext]_vars

\* ------------------------------------------------------------------------
\* API client (api/DbApiService): values
\* ------------------------------------------------------------------------
\* A retry configuration that also retries a 404.
retryConfigWith404 ==
    [maxRetries |-> 3, baseDelayMs |-> 1000, maxDelayMs |-> 10000,
     retryableStatuses |-> { 404, 429, 500, 502, 503, 504 }]

DEFAULT_RETRY_CONFIG ==
    [maxRetries |-> 3, baseDelayMs |-> 1000, maxDelayMs |-> 10000,
     retryableStatuses |-> { 429, 500, 502, 503, 504 }]

\* CACHE_DURATION.stations
STATION_CACHE_MS == 24 * 60 * 60 * 1000

\* Math.pow(2, n)
RECURSIVE pow2(_)
pow2(n) == IF n <= 0 THEN 1 ELSE 2 * pow2(n - 1)

\* A backoff that doubles once too often: baseDelayMs * Math.pow(2, attempt).
backoffDelayFromTwo(attempt, config) ==
    IF config.baseDelayMs * pow2(attempt) < config.maxDelayMs
    THEN config.baseDelayMs * pow2(attempt)
    ELSE config.maxDelayMs

\* Math.min(baseDelayMs * Math.pow(2, attempt - 1), maxDelayMs)
backoffDelay(attempt, config) ==
    IF config.baseDelayMs * pow2(attempt - 1) < config.maxDelayMs
    THEN config.baseDelayMs * pow2(attempt - 1)
    ELSE config.maxDelayMs

\* response.ok: a status in the range 200-299
responseOk(status) == status >= 200 /\ status <= 299

\* query.toLowerCase(), a query being the sequence of its characters
lowerChar(ch) == IF ch = "B" THEN "b" ELSE IF ch = "E" THEN "e" ELSE ch
toLowerCase(query) == [k \in 1..Len(query) |-> lowerChar(query[k])]

\* `stations:${query.toLowerCase()}`
stationsKey(query) == <<"stations", toLowerCase(query)>>

\* data.filter(item => item.type === 'stop' || item.type === 'station')
isStop(item) == item.type = "stop" \/ item.type = "station"
filterStops(data) == SelectSeq(data, isStop)

\* What fetch() settles to: a response (its status, and its body as <<data>>,
\* or <<>> when response.json() rejects), or a rejection (network error).
Response(status, body) == [kind |-> "response", status |-> status, body |-> body]
Rejection == [kind |-> "reject", status |-> 0, body |-> <<>>]

\* lastError: <<>> for null, else the Error kept for the final throw.
HttpError(status) == <<[kind |-> "http", status |-> status]>>
NetworkError == <<[kind |-> "network", status |-> 0]>>

\* new Error(`API Error: ${response.status}`), and what a rejected
\* response.json() throws.
ApiError(status) == <<[kind |-> "api", status |-> status]>>
JsonError == <<[kind |-> "json", status |-> 0]>>

\* ------------------------------------------------------------------------
\* API client: inputs
\* ------------------------------------------------------------------------
\* The instants at which something runs: 0, 2, 3 and 6 minutes, and a day
\* and 3 minutes later.
ApiClockPoints ==
    <<0, 2 * MsPerMinute, 3 * MsPerMinute, 6 * MsPerMinute, MsPerDay + 3 * MsPerMinute>>

apiNow == ApiClockPoints[clock]

\* A query too short to be searched, and two spellings of one query.
Queries == { <<"b">>, <<"B", "e">>, <<"b", "e">> }

StationBodies ==
    { <<[type |-> "stop", id |-> 1], [type |-> "poi", id |-> 9]>>, <<>> }

JourneyBodies ==
    { <<Journey(<<Leg(Before(AtDay(0, 8, 0), 40), 300, Before(AtDay(0, 8, 0), 15), 300)>>)>> }

\* The statuses a provider answers with here: success, a client error, and
\* two of the statuses that are retried.
Statuses == { 200, 404, 429, 503 }

FetchOutcomes(c) ==
    { Response(status, <<>>) : status \in Statuses }
        \cup { Response(200, <<body>>) :
                 body \in IF c = "stations" THEN StationBodies ELSE JourneyBodies }
        \cup { Rejection }

\* ------------------------------------------------------------------------
\* API client: the steps of a call
\* ------------------------------------------------------------------------
ApiRunning(c) == api[c].pc \in { "fetch", "sleep" }

Returned(key, hit, data) ==
    [IdleCall EXCEPT !.pc = "returned", !.key = key, !.hit = hit, !.result = <<data>>]

\* getCached(cacheKey), and on a miss the choice of the provider and the
\* first fetch() of fetchWithRetry (attempt 0, no wait before it).
CallLookup(c, key) ==
    LET cached == cacheLookup(cache, key, apiNow)
    IN IF cached # <<>>
       THEN /\ api' = [api EXCEPT ![c] = Returned(key, TRUE, cached[1])]
            /\ cache' = cache
       ELSE /\ api' = [api EXCEPT ![c] =
                        [IdleCall EXCEPT !.pc = "fetch", !.key = key,
                                         !.provider = selectProvider(providers),
                                         !.attempts = 1,
                                         !.evicted = (cacheAfterLookup(cache, key, apiNow)
                                                        # cache)]]
            /\ cache' = cacheAfterLookup(cache, key, apiNow)

\* searchStations(query) up to its first await.
SearchStations ==
    /\ ~ApiRunning("stations")
    /\ apiCalls < MaxCalls
    /\ apiCalls' = apiCalls + 1
    /\ \E query \in Queries :
         IF Len(query) < 2
         THEN /\ api' = [api EXCEPT !["stations"] = Returned(<<>>, FALSE, <<>>)]
              /\ cache' = cache
         ELSE CallLookup("stations", stationsKey(query))
    /\ UNCHANGED <<clock, storeVars, deviceVars, providers, timers, proc, cycles, round,
                   selVars, resVars>>

\* findJourneyByArrival(fromId, toId, arrival) up to its first await.
FindJourneyByArrival ==
    /\ ~ApiRunning("journeys")
    /\ apiCalls < MaxCalls
    /\ apiCalls' = apiCalls + 1
    /\ CallLookup("journeys", cacheKey(1, 2, formatISO(AtDay(0, 8, 0))))
    /\ UNCHANGED <<clock, storeVars, deviceVars, providers, timers, proc, cycles, round,
                   selVars, resVars>>

\* What a call becomes when its fetch() settled to outcome:
\*   fetchWithRetry returns a response that is ok or not retryable, after
\*     which the caller throws on !response.ok or a rejected json(), or
\*     caches and returns the data;
\*   otherwise lastError is kept and the loop goes on to the next attempt,
\*     sleeping first, or is left with the throw of lastError.
\* cached is <<data>> when setCache is called; failed when the caller's
\* catch block is reached.
Settled(c, call, outcome) ==
    LET config == DEFAULT_RETRY_CONFIG
    IN IF outcome.kind = "response"
          /\ (responseOk(outcome.status) \/ outcome.status \notin config.retryableStatuses)
       THEN IF ~responseOk(outcome.status) \/ outcome.body = <<>>
            THEN [call |-> [call EXCEPT !.pc = "threw", !.outcome = <<outcome>>,
                                        !.thrown = IF ~responseOk(outcome.status)
                                                   THEN ApiError(outcome.status)
                                                   ELSE JsonError],
                  cached |-> <<>>, failed |-> TRUE]
            ELSE LET data == IF c = "stations" THEN filterStops(outcome.body[1])
                             ELSE outcome.body[1]
                 IN [call |-> [call EXCEPT !.pc = "returned", !.outcome = <<outcome>>,
                                           !.result = <<data>>],
                     cached |-> <<data>>, failed |-> FALSE]
       ELSE LET lastError == IF outcome.kind = "response" THEN HttpError(outcome.status)
                             ELSE NetworkError
                attempt == call.attempt + 1
            IN IF attempt <= config.maxRetries
               THEN [call |-> [call EXCEPT !.pc = "sleep", !.attempt = attempt,
                                           !.outcome = <<outcome>>,
                                           !.lastError = lastError,
                                           !.delays = Append(@, backoffDelay(attempt, config))],
                     cached |-> <<>>, failed |-> FALSE]
               ELSE [call |-> [call EXCEPT !.pc = "threw", !.attempt = attempt,
                                           !.outcome = <<outcome>>,
                                           !.lastError = lastError, !.thrown = lastError],
                     cached |-> <<>>, failed |-> TRUE]

\* The fetch() of a call settles. A failed findJourneyByArrival marks its
\* provider unavailable and sets the timer that re-enables it; a failed
\* searchStations only throws.
FetchSettles(c) ==
    /\ api[c].pc = "fetch"
    /\ \E outcome \in FetchOutcomes(c) :
         LET next == Settled(c, api[c], outcome)
             marks == next.failed /\ c = "journeys"
         IN /\ api' = [api EXCEPT ![c] = next.call]
            /\ cache' = IF next.cached # <<>>
                        THEN cacheAfterSet(cache, api[c].key, next.cached[1],
                                           IF c = "stations" THEN STATION_CACHE_MS
                                           ELSE JOURNEY_CACHE_MS, apiNow)
                        ELSE cache
            /\ providers' = IF marks
                            THEN [providers EXCEPT ![api[c].provider].isAvailable = FALSE,
                                                   ![api[c].provider].lastError = apiNow]
                            ELSE providers
            /\ timers' = IF marks
                         THEN Append(timers, [due |-> apiNow + PROVIDER_COOLDOWN_MS,
                                              provider |-> api[c].provider])
                         ELSE timers
    /\ UNCHANGED <<clock, storeVars, deviceVars, proc, cycles, round, apiCalls,
                   selVars, resVars>>

\* The sleep before a retry is over: the next fetch() goes out.
SleepEnds(c) ==
    /\ api[c].pc = "sleep"
    /\ api' = [api EXCEPT ![c].pc = "fetch", ![c].attempts = @ + 1]
    /\ UNCHANGED <<clock, storeVars, deviceVars, clientVars, proc, cycles, round, apiCalls,
                   selVars, resVars>>

\* A re-enable timer that is due fires.
ApiTimerFires ==
    /\ \E i \in 1..Len(timers) :
         /\ timers[i].due <= apiNow
         /\ providers' = [providers EXCEPT ![timers[i].provider].isAvailable = TRUE]
         /\ timers' = SubSeq(timers, 1, i - 1) \o SubSeq(timers, i + 1, Len(timers))
    /\ UNCHANGED <<clock, storeVars, deviceVars, cache, proc, cycles, round, apiVars,
                   selVars, resVars>>

\* clearApiCache()
ClearApiCache ==
    /\ cache' = {}
    /\ UNCHANGED <<clock, storeVars, deviceVars, providers, timers, proc, cycles, round,
                   apiVars, selVars, resVars>>

\* Time passes.
ApiTick ==
    /\ clock < Len(ApiClockPoints)
    /\ clock' = clock + 1
    /\ UNCHANGED <<storeVars, deviceVars, clientVars, proc, cycles, round, apiVars,
                   selVars, resVars>>

ClientInit ==
    /\ RecIdle
    /\ ApiIdle
    /\ SelIdle
    /\ ResIdle

ClientNext ==
    \/ SearchStations
    \/ FindJourneyByArrival
    \/ \E c \in ApiCalls : FetchSettles(c)
    \/ \E c \in ApiCalls : SleepEnds(c)
    \/ ApiTimerFires
    \/ ClearApiCache
    \/ ApiTick

SpecClient == ClientInit /\ [][ClientNext]_vars

\* fetch() settles and a sleep ends: the platform times a request out, and
\* a timer that was set fires.
SpecClientFair ==
    /\ SpecClient
    /\ \A c \in ApiCalls : WF_vars(FetchSettles(c)) /\ WF_vars(SleepEnds(c))

\* ------------------------------------------------------------------------
\* Properties of the Alarm Reconciler
\* ------------------------------------------------------------------------
\* What a cycle wrote to the alarm state or asked of the device.
AlarmEffects ==
    { "alarm", "history", "cancelRequest", "notifyRequest",
      "nativeCancelRequest", "nativeRequest" }

\* C3 (same steps for all triggers): two triggers that resolved the same
\* due commute (date, preparationTime, safetyBuffer) and received the same
\* journey list compute the same candidate alarmTime.
C3_SameCandidate ==
    \A p, q \in Triggers :
        (/\ proc[p].fetched /\ proc[q].fetched
         /\ proc[p].journeys = proc[q].journeys
         /\ proc[p].commuteDate = proc[q].commuteDate
         /\ proc[p].prep = proc[q].prep
         /\ proc[p].buffer = proc[q].buffer
         /\ proc[p].evalNow = proc[q].evalNow)
        => proc[p].cand = proc[q].cand

\* C4 (idempotence): a cycle of any trigger whose candidate equals the
\* persisted alarm time writes nothing to the alarm state, requests no
\* notification or native alarm and adds no history entry.
C4_Idempotent ==
    \A p \in Triggers :
        proc[p].same => proc[p].effects \cap AlarmEffects = {}

\* C5 (no past alarm): no trigger persists an alarm time, or requests a
\* notification or native alarm, for an instant earlier than the clock at
\* the time the cycle evaluated its candidate.
C5_NoPastAlarm ==
    \A p \in Triggers :
        proc[p].effects \cap { "alarm", "notifyRequest", "nativeRequest" } # {}
            => proc[p].cand >= proc[p].evalNow

\* C7 (fetch failure): the step in which findJourneyByArrival fails leaves
\* the persisted alarm time, the history and the armed alarms as they are
\* and ends the cycle; a cycle that failed so has written none of them, and
\* the foreground cycle is in its error state.
C7_FailureKeepsAlarm ==
    [][\A p \in Triggers :
          /\ (proc'[p].fetchFailed /\ ~proc[p].fetchFailed)
                => UNCHANGED <<storedAlarmTime, storedHistory, notifications, nativeAlarms>>
          /\ proc'[p].fetchFailed
                => /\ proc'[p].pc = "done"
                   /\ proc'[p].effects \cap AlarmEffects = {}
                   /\ (p = "fg" => proc'[p].error)]_vars

\* Reached: the foreground fetch failed while an alarm was stored and
\* armed; both are still there and the error state is set.
C7_Witness ==
    /\ proc["fg"].fetchFailed
    /\ proc["fg"].error
    /\ proc["fg"].pc = "done"
    /\ storedAlarmTime = formatISO(EarlierAlarm)
    /\ notifications = { [id |-> ALARM_NOTIFICATION_ID, timestamp |-> EarlierAlarm] }

\* The store a cycle leaves when it runs alone on `store`, with the
\* candidate it computed: the background compares, writes on a difference
\* and records an adjustment when a value was stored; the others overwrite.
Committed(p) ==
    /\ proc[p].cand # Null
    /\ (p = "st" \/ proc[p].cand >= proc[p].evalNow)

AdjustmentOf(oldAlarmTime, p) ==
    [oldAlarmTime |-> oldAlarmTime, newAlarmTime |-> proc[p].cand \div MsPerSecond]

SerialStep(p, store) ==
    IF ~Committed(p) THEN store
    ELSE IF p = "bg"
         THEN IF store.alarm = proc[p].cand \div MsPerSecond THEN store
              ELSE [alarm |-> proc[p].cand \div MsPerSecond,
                    history |-> IF store.alarm = Null THEN store.history
                                ELSE <<AdjustmentOf(store.alarm, p)>> \o store.history]
         ELSE [store EXCEPT !.alarm = proc[p].cand \div MsPerSecond]

\* The stored state, each adjustment reduced to its old and new alarm time.
StoreNow ==
    [alarm |-> storedAlarmTime,
     history |-> [k \in 1..Len(storedHistory) |->
                    [oldAlarmTime |-> storedHistory[k].oldAlarmTime,
                     newAlarmTime |-> storedHistory[k].newAlarmTime]]]

RoundBase ==
    [alarm |-> round.base.alarm,
     history |-> [k \in 1..Len(round.base.history) |->
                    [oldAlarmTime |-> round.base.history[k].oldAlarmTime,
                     newAlarmTime |-> round.base.history[k].newAlarmTime]]]

\* Two cycles overlapped and both have finished.
RoundOver(p, q) ==
    /\ p # q
    /\ round.valid
    /\ round.ran = {p, q}
    /\ \A r \in Triggers : ~Running(r)

\* C8 (as if atomic): after two overlapping cycles have finished, the
\* persisted alarm time and history are those of one of the two serial
\* executions of the same two cycles.
C8_Serializable ==
    \A p, q \in Triggers :
        RoundOver(p, q) =>
            \/ StoreNow = SerialStep(q, SerialStep(p, RoundBase))
            \/ StoreNow = SerialStep(p, SerialStep(q, RoundBase))

\* C9 (no torn write): after an overlapping background and foreground cycle
\* have both written, the persisted alarm time is the candidate of one of
\* them, each candidate is what its cycle computes from its own journeys
\* alone, and neither was in the past when its cycle evaluated it.
C9_OneOfTheTwo ==
    (/\ RoundOver("bg", "fg")
     /\ "alarm" \in proc["bg"].effects
     /\ "alarm" \in proc["fg"].effects)
    => /\ storedAlarmTime \in { proc["bg"].cand \div MsPerSecond,
                                proc["fg"].cand \div MsPerSecond }
       /\ proc["bg"].cand =
            AdjDeparture(proc["bg"].journeys[1]) - proc["bg"].prep * MsPerMinute
       /\ proc["fg"].cand =
            selectOptimalJourney(proc["fg"].journeys, proc["fg"].commuteDate,
                                 proc["fg"].prep, proc["fg"].buffer).alarmTime
       /\ proc["bg"].cand >= proc["bg"].evalNow
       /\ proc["fg"].cand >= proc["fg"].evalNow

\* Reached: both cycles wrote different candidates while overlapping, the
\* foreground's write landing first and the background's staying.
C9_Witness ==
    /\ RoundOver("bg", "fg")
    /\ "alarm" \in proc["bg"].effects
    /\ "alarm" \in proc["fg"].effects
    /\ proc["bg"].cand # proc["fg"].cand
    /\ storedAlarmTime = proc["bg"].cand \div MsPerSecond

\* C12 (empty journey list): on an empty list the selector returns journey =
\* null and alarmTime = null with the reason "No journeys available", and a
\* cycle of any trigger that received an empty list ends without an error,
\* without a candidate, and without having written the alarm time or the
\* history or asked the device for anything.
C12_EmptyListSchedulesNothing ==
    \A p \in Triggers :
        (proc[p].fetched /\ proc[p].journeys = <<>>) =>
            /\ selectOptimalJourney(proc[p].journeys, proc[p].commuteDate,
                                    proc[p].prep, proc[p].buffer) = NoSelection
            /\ NoSelection.journey = <<>>
            /\ NoSelection.alarmTime = Null
            /\ proc[p].pc = "done"
            /\ ~proc[p].error
            /\ proc[p].cand = Null
            /\ proc[p].effects \cap AlarmEffects = {}

\* Reached: the dashboard's cycle received an empty list while an alarm was
\* stored and armed, and both are still those of before.
C12_Witness ==
    /\ proc["fg"].fetched
    /\ proc["fg"].journeys = <<>>
    /\ proc["fg"].pc = "done"
    /\ storedAlarmTime = formatISO(EarlierAlarm)
    /\ notifications = { [id |-> ALARM_NOTIFICATION_ID, timestamp |-> EarlierAlarm] }

RanAlone(p) ==
    /\ round.valid
    /\ round.ran = {p}
    /\ proc[p].pc = "done"

\* C14 (a change is persisted, recorded and notified): when a cycle of any
\* trigger has changed the persisted alarm time from an existing value X to
\* a different value Y, Y is that cycle's candidate, the history is the
\* former history with exactly one record X -> Y put in front, and the cycle
\* has requested the notification for Y.
C14_ChangeIsRecorded ==
    \A p \in Triggers :
        (/\ RanAlone(p)
         /\ round.base.alarm # Null
         /\ storedAlarmTime # round.base.alarm)
        => /\ storedAlarmTime = formatISO(proc[p].cand)
           /\ Len(storedHistory) = Len(round.base.history) + 1
           /\ storedHistory[1].oldAlarmTime = round.base.alarm
           /\ storedHistory[1].newAlarmTime = storedAlarmTime
           /\ Tail(storedHistory) = round.base.history
           /\ "notifyRequest" \in proc[p].effects

\* ------------------------------------------------------------------------
\* Properties of the adjustment history
\* ------------------------------------------------------------------------
\* C15 (history bound): the persisted history never holds more than 10
\* records and is ordered newest first; a step that adds a record puts it in
\* front, keeps the former records unchanged and in order, and evicts only
\* the oldest one, and only when the history was full.
C15_HistoryBounded ==
    /\ [](/\ Len(storedHistory) <= 10
          /\ \A k \in 1..(Len(storedHistory) - 1) :
                storedHistory[k].id >= storedHistory[k + 1].id)
    /\ [][storedHistory' # storedHistory =>
            /\ Len(storedHistory') > 0
            /\ storedHistory'[1].newAlarmTime = formatISO(proc["bg"].cand)
            /\ Tail(storedHistory') =
                  IF Len(storedHistory) < 10 THEN storedHistory
                  ELSE SubSeq(storedHistory, 1, Len(storedHistory) - 1)]_vars

\* Reached: a record was added to a history of 10; the history still holds
\* 10, the former nine newest behind the new one, the former oldest gone.
C15_Witness ==
    /\ "history" \in proc["bg"].effects
    /\ Len(storedHistory) = 10
    /\ Tail(storedHistory) = SubSeq(PriorHistory(10), 1, 9)
    /\ storedHistory[1].oldAlarmTime = formatISO(EarlierAlarm)

\* ------------------------------------------------------------------------
\* Properties of the API client
\* ------------------------------------------------------------------------
\* The outcomes of fetch() that fetchWithRetry retries.
Retryable(outcome) ==
    \/ outcome.kind = "reject"
    \/ outcome.kind = "response" /\ outcome.status \in { 429, 500, 502, 503, 504 }

ErrorOf(outcome) ==
    IF outcome.kind = "reject" THEN NetworkError ELSE HttpError(outcome.status)

Looked(c) == apiCalls' # apiCalls /\ api'[c] # api[c] /\ api'[c].key # <<>>

\* C17: getCached never returns an entry after its expiresAt: a lookup made
\* later than expiresAt is a miss and removes the entry. Station entries
\* expire 24 hours and journey entries 2 minutes after they were stored, and
\* clearApiCache removes every entry.
C17_NoExpiredEntryReturned ==
    /\ [](\A e \in cache :
            e.expiresAt = e.timestamp + (IF e.key[1] = "stations" THEN 24 * 60 * 60 * 1000
                                         ELSE 2 * 60 * 1000))
    /\ [][\A c \in ApiCalls : Looked(c) =>
            /\ api'[c].hit =>
                 \E e \in cache : /\ e.key = api'[c].key
                                  /\ apiNow <= e.expiresAt
                                  /\ api'[c].result = <<e.data>>
            /\ \A e \in cache : (e.key = api'[c].key /\ apiNow > e.expiresAt)
                                  => ~api'[c].hit /\ e \notin cache']_vars
    /\ [][(cache' # cache /\ api' = api) => cache' = {}]_vars

\* A lookup found its entry expired, deleted it and went on to fetch.
C17_Witness ==
    \E c \in ApiCalls : api[c].pc = "fetch" /\ api[c].evicted /\ api[c].attempts = 1
\* What C18 says of the calls that are answered and of the entries that are
\* created:
\*   a call whose key has an unexpired entry returns that entry's data, makes
\*     no fetch() and leaves the cache as it is;
\*   an entry appears in the cache only in the step in which a call's
\*     fetch() succeeded, under that call's key and with the data it returns;
\*   a call that threw returned no data, and one that returned threw nothing.
C18_HitsAndCreation ==
    /\ [](\A c \in ApiCalls :
            /\ api[c].pc = "threw" => api[c].result = <<>> /\ api[c].thrown # <<>>
            /\ api[c].pc = "returned" => api[c].result # <<>> /\ api[c].thrown = <<>>)
    /\ [][\A c \in ApiCalls : Looked(c) =>
            \A e \in cache : (e.key = api'[c].key /\ apiNow <= e.expiresAt) =>
                /\ api'[c].pc = "returned"
                /\ api'[c].result = <<e.data>>
                /\ api'[c].attempts = 0
                /\ cache' = cache]_vars
    /\ [][\A e \in cache' \ cache :
            \E c \in ApiCalls :
                /\ api[c].pc = "fetch" /\ api'[c].pc = "returned"
                /\ api'[c].outcome[1].kind = "response"
                /\ api'[c].outcome[1].status \in 200..299
                /\ e.key = api[c].key
                /\ api'[c].result = <<e.data>>]_vars

\* C18 as amended: as C18_HitsAndCreation says, and a failed call creates no
\* entry: its lookup removes nothing but an entry of its own key that had
\* expired, and none of its later steps changes the cache.
C18_FailedCallCreatesNoEntry ==
    /\ C18_HitsAndCreation
    /\ [][\A c \in ApiCalls :
            /\ Looked(c) =>
                 /\ cache' \subseteq cache
                 /\ \A e \in cache \ cache' : e.key = api'[c].key /\ apiNow > e.expiresAt
            /\ (api[c].pc = "fetch" /\ api'[c].pc \in { "sleep", "threw" }) => cache' = cache
            /\ (api[c].pc = "sleep" /\ api'[c].pc = "fetch") => cache' = cache]_vars

\* A call failed whose lookup had found its entry expired and deleted it.
C18_Witness ==
    \E c \in ApiCalls : api[c].pc = "threw" /\ api[c].evicted /\ api[c].result = <<>>

\* C18 as stated: a call whose cache key has an unexpired entry returns that
\* entry's data and issues no HTTP request; cache entries are created only
\* by a successful fetch, and a failed call leaves the cache unchanged (no
\* step of it, its lookup included, changes the cache) and is never answered
\* from a partial result.
C18_FailedCallLeavesCache ==
    /\ C18_HitsAndCreation
    /\ [](\A c \in ApiCalls : api[c].pc = "threw" => ~api[c].evicted)
    /\ [][\A c \in ApiCalls :
            (api[c].pc = "fetch" /\ api'[c].pc \in { "sleep", "threw" }) => cache' = cache]_vars
\* C19: a findJourneyByArrival call that fails marks the provider it used
\* unavailable, records lastError and sets a timer due 5 minutes later; a
\* call that returns, from the cache or from its request, leaves the
\* providers as they are; an unavailable provider always has such a timer
\* pending, and when the timer fires, no call being involved, the provider
\* is available again.
C19_FailureMarksProvider ==
    /\ [](\A i \in 1..Len(providers) :
            ~providers[i].isAvailable =>
                \E k \in 1..Len(timers) :
                    /\ timers[k].provider = i
                    /\ timers[k].due <= providers[i].lastError + 5 * 60 * 1000)
    /\ [][/\ (api["journeys"].pc = "fetch" /\ api'["journeys"].pc = "threw") =>
                /\ ~providers'[api["journeys"].provider].isAvailable
                /\ providers'[api["journeys"].provider].lastError = apiNow
                /\ timers' = Append(timers, [due |-> apiNow + 5 * 60 * 1000,
                                             provider |-> api["journeys"].provider])
          /\ (api'["journeys"] # api["journeys"] /\ api'["journeys"].pc = "returned")
                => providers' = providers /\ timers' = timers
          /\ (Len(timers') < Len(timers)) =>
                /\ api' = api
                /\ \E k \in 1..Len(timers) :
                     /\ timers[k].due <= apiNow
                     /\ providers'[timers[k].provider].isAvailable]_vars

\* After the only call made failed, the timer fired and the provider is
\* available again.
C19_Witness ==
    /\ apiCalls = 1
    /\ api["journeys"].pc = "threw"
    /\ providers[1].lastError # Null
    /\ providers[1].isAvailable
    /\ timers = <<>>
\* The outcomes of fetch() that make the caller fail.
Failing(outcome) ==
    \/ Retryable(outcome)
    \/ ~(outcome.status \in 200..299)
    \/ outcome.body = <<>>

\* C20: a call made while every provider is marked unavailable, and not
\* answered from the cache, sends its request to the first provider. No call
\* fails at its start: a call throws only in the step in which its own
\* fetch() settled, and only when that outcome was a failure.
C20_FallsBackToFirstProvider ==
    /\ [][\A c \in ApiCalls : Looked(c) =>
            /\ api'[c].pc \in { "returned", "fetch" }
            /\ (api'[c].pc = "fetch" /\ \A i \in 1..Len(providers) : ~providers[i].isAvailable)
                 => api'[c].provider = 1 /\ api'[c].attempts = 1]_vars
    /\ [][\A c \in ApiCalls :
            (api'[c] # api[c] /\ api'[c].pc = "threw") =>
                /\ api[c].pc = "fetch"
                /\ api'[c].attempts >= 1
                /\ Failing(api'[c].outcome[1])]_vars

\* A request is out to the first provider while no provider is available.
C20_Witness ==
    /\ api["journeys"].pc = "fetch"
    /\ api["journeys"].provider = 1
    /\ api["journeys"].attempts = 1
    /\ \A i \in 1..Len(providers) : ~providers[i].isAvailable
\* ------------------------------------------------------------------------
\* Properties of the Alarm Reconciler (continued)
\* ------------------------------------------------------------------------
\* The due commute as trigger p resolves it: <<>> for none, else
\* <<[date, from, to]>>.
DueCommute(p) ==
    IF p = "st"
    THEN LET found == findNextActiveCommuteLegacy(weekSettings, now)
         IN IF found = <<>> THEN <<>>
            ELSE <<[from |-> found[1].settings.startStation,
                    to |-> found[1].settings.destinationStation]>>
    ELSE IF storedCommutes = <<>> THEN <<>>
         ELSE LET found == findNextActiveCommute(storedCommutes[1], now)
              IN IF found = <<>> THEN <<>>
                 ELSE <<[from |-> found[1].commute.startStation,
                         to |-> found[1].commute.destinationStation]>>

\* Trigger p starts a cycle in this step.
Starts(p) == cycles' # cycles /\ proc'[p] # proc[p]

NothingToFetch(p) ==
    DueCommute(p) = <<>> \/ DueCommute(p)[1].from = Null \/ DueCommute(p)[1].to = Null

\* C21: a cycle that starts with no commutes stored, no due commute, or a
\* due commute without a start or a destination station ends at once: the
\* stored alarm time and the history stay as they are, no journey request
\* is made (the cache and the providers are not touched), and the pending
\* notification and the native alarm stay as they are.
C21_NothingDueChangesNothing ==
    [][\A p \in Triggers : (Starts(p) /\ NothingToFetch(p)) =>
          /\ proc'[p].pc = "done"
          /\ ~proc'[p].fetched /\ ~proc'[p].fetchFailed
          /\ proc'[p].effects \subseteq { "weekSettings" }
          /\ storedAlarmTime' = storedAlarmTime
          /\ storedHistory' = storedHistory
          /\ notifications' = notifications
          /\ nativeAlarms' = nativeAlarms
          /\ cache' = cache /\ providers' = providers /\ timers' = timers]_vars

\* A cycle found only a disabled commute and ended while the alarm armed
\* earlier is still stored and pending.
C21_Witness ==
    /\ storedCommutes = << <<DisabledCommute>> >>
    /\ proc["bg"].pc = "done"
    /\ proc["bg"].commuteDate = Null
    /\ storedAlarmTime = formatISO(EarlierAlarm)
    /\ notifications = { [id |-> ALARM_NOTIFICATION_ID, timestamp |-> EarlierAlarm] }
\* C23: there is never more than one pending notification, and it has the
\* id 'bahn-alarm-trigger', nor more than one native alarm, and it has the
\* fixed alarm id; a notification or native alarm is scheduled only by a
\* cycle that asked for the existing one to be cancelled before.
C23_AtMostOneAlarm ==
    /\ [](/\ Cardinality(notifications) <= 1
          /\ \A n \in notifications : n.id = "bahn-alarm-trigger"
          /\ Cardinality(nativeAlarms) <= 1
          /\ \A a \in nativeAlarms : a.id = ALARM_ID
          /\ \A p \in Triggers :
               /\ proc[p].pc = "create" => "cancelRequest" \in proc[p].effects
               /\ "notifyRequest" \in proc[p].effects => "cancelRequest" \in proc[p].effects
               /\ proc[p].pc = "nativeSchedule" => "nativeCancelRequest" \in proc[p].effects
               /\ "nativeRequest" \in proc[p].effects
                    => "nativeCancelRequest" \in proc[p].effects)
    /\ [][/\ notifications' # notifications /\ notifications' # {}
             => \E p \in Triggers : proc[p].pc = "create"
          /\ nativeAlarms' # nativeAlarms /\ nativeAlarms' # {}
             => \E p \in Triggers : proc[p].pc = "nativeSchedule"]_vars

\* Two cycles have each scheduled a notification and a native alarm, for
\* different times, and one of each is pending.
C23_Witness ==
    /\ proc["fg"].pc = "done" /\ proc["st"].pc = "done"
    /\ "notifyRequest" \in proc["fg"].effects /\ "nativeRequest" \in proc["fg"].effects
    /\ "notifyRequest" \in proc["st"].effects /\ "nativeRequest" \in proc["st"].effects
    /\ proc["fg"].cand # proc["st"].cand
    /\ Cardinality(notifications) = 1
    /\ Cardinality(nativeAlarms) = 1
\* The cycle of p is at, or past, the native alarm.
AtNative(p) == proc[p].pc \in { "nativeCancel", "nativeSchedule" }

\* C24: the native alarm comes after scheduleAlarmNotification and does
\* not touch what that left: a cycle cancels or schedules the native alarm
\* only once its notification step is over and isAlarmKitAvailable()
\* reported true; no step at the availability check or at the native alarm
\* changes the pending notification or the stored alarm time; and whatever
\* AlarmKit answers, the cycle ends without an error.
C24_NativeAlarmIsAnExtra ==
    /\ [](\A p \in Triggers :
            /\ (AtNative(p) \/ proc[p].effects \cap { "nativeCancelRequest", "nativeRequest" } # {})
                 => /\ proc[p].alarmKit = <<TRUE>>
                    /\ "alarm" \in proc[p].effects
            /\ proc[p].alarmKit = <<FALSE>>
                 => /\ proc[p].pc = "done" /\ ~proc[p].error
                    /\ proc[p].effects \cap { "nativeCancelRequest", "nativeRequest" } = {})
    /\ [][\A p \in Triggers :
            ((proc[p].pc = "alarmKit" \/ AtNative(p)) /\ proc'[p] # proc[p]) =>
                /\ notifications' = notifications
                /\ storedAlarmTime' = storedAlarmTime
                /\ proc'[p].error = proc[p].error
                /\ proc'[p].pc \in { "nativeCancel", "nativeSchedule", "done" }]_vars
    /\ [][\A p \in Triggers :
            (proc'[p].pc = "alarmKit" /\ proc[p].pc # "alarmKit")
                => proc[p].pc \in { "notify", "create" }]_vars

\* AlarmKit rejected the native alarm; the notification scheduled before it
\* is pending and the cycle ended without an error.
C24_Witness ==
    /\ proc["fg"].pc = "done"
    /\ ~proc["fg"].error
    /\ proc["fg"].effects = { "alarm", "cancelRequest", "notifyRequest",
                              "nativeCancelRequest", "nativeRequest" }
    /\ nativeAlarms = {}
    /\ notifications = { [id |-> ALARM_NOTIFICATION_ID, timestamp |-> proc["fg"].cand] }
\* C25: a failure while arming leaves the alarm that was armed before in
\* effect: when a cycle's scheduling of the notification, or of the native
\* alarm, is over and the cycle had cancelled the one pending before, a
\* notification, or a native alarm, is pending afterwards.
C25_ArmingFailureKeepsAlarm ==
    [][\A p \in Triggers :
          /\ (proc[p].pc = "create" /\ proc'[p].pc # "create"
                /\ "notification" \in proc[p].cancelled) => notifications' # {}
          /\ (proc[p].pc = "nativeSchedule" /\ proc'[p].pc # "nativeSchedule"
                /\ "native" \in proc[p].cancelled) => nativeAlarms' # {}]_vars
\* C26: deleting the commute the armed alarm was derived from cancels the
\* pending notification and the native alarm, and a cycle that starts and
\* finds no due commute cancels neither.
C26_DeletionCancelsAlarm ==
    [][/\ (storedCommutes' # storedCommutes /\ storedCommutes # <<>>
             /\ \E k \in 1..Len(storedCommutes[1]) :
                  /\ \A j \in 1..Len(storedCommutes'[1]) :
                       storedCommutes'[1][j].id # storedCommutes[1][k].id
                  /\ findNextActiveCommute(storedCommutes[1], now) # <<>>
                  /\ findNextActiveCommute(storedCommutes[1], now)[1].commute
                       = storedCommutes[1][k])
            => notifications' = {} /\ nativeAlarms' = {}
       /\ \A p \in Triggers : (Starts(p) /\ NothingToFetch(p))
            => notifications' = notifications /\ nativeAlarms' = nativeAlarms]_vars
\* min(1000 * 2^(k-1), 10000)
CappedDoubling(k) == IF 1000 * 2^(k - 1) < 10000 THEN 1000 * 2^(k - 1) ELSE 10000

\* C28: a call has waited once before each of its attempts but the first,
\* so not at all while its first attempt is out; the wait before retry k is
\* min(1000 * 2^(k-1), 10000) ms, which is 1000, 2000 and 4000 ms for the
\* three retries, and the delay computed for any retry index is that value
\* and at most 10000 ms.
C28_BackoffDelays ==
    /\ \A c \in ApiCalls :
         /\ api[c].pc = "fetch" => Len(api[c].delays) = api[c].attempts - 1
         /\ api[c].pc = "sleep" => Len(api[c].delays) = api[c].attempts
         /\ api[c].attempts = 1 /\ api[c].pc = "fetch" => api[c].delays = <<>>
         /\ \A k \in 1..Len(api[c].delays) : api[c].delays[k] = CappedDoubling(k)
         /\ Len(api[c].delays) <= 3
         /\ \A k \in 1..Len(api[c].delays) : api[c].delays[k] = <<1000, 2000, 4000>>[k]
    /\ \A k \in 1..MaxRetryIndex :
         /\ backoffDelay(k, DEFAULT_RETRY_CONFIG) = CappedDoubling(k)
         /\ backoffDelay(k, DEFAULT_RETRY_CONFIG) <= 10000

\* The fourth attempt is out after waits of one, two and four seconds.
C28_Witness ==
    \E c \in ApiCalls :
        /\ api[c].pc = "fetch"
        /\ api[c].attempts = 4
        /\ api[c].delays = <<1000, 2000, 4000>>
\* C29: whenever no cycle is running and a cycle that has ended persisted
\* an alarm time, the pending notification is the one for the persisted
\* alarm time.
C29_NotificationMatchesStore ==
    ((\A q \in Triggers : ~Running(q))
       /\ \E p \in Triggers : proc[p].pc = "done" /\ "alarm" \in proc[p].effects)
    => notifications = { [id |-> ALARM_NOTIFICATION_ID, timestamp |-> parseISO(storedAlarmTime)] }

\* ------------------------------------------------------------------------
\* Properties of the commutes screen
\* ------------------------------------------------------------------------
\* C31 (shown occurrence is the resolved one): for a list of one enabled
\* commute, findNextActiveCommute and getNextOccurrence at the same clock
\* both yield nothing or both yield the same date.
C31_ShownIsResolved ==
    (/\ resPc = "done"
     /\ occPc = "shown"
     /\ Len(resCommutes) = 1
     /\ resCommutes[1].enabled)
    => \/ resResult = <<>> /\ occResult[1].next = <<>>
       \/ /\ resResult # <<>>
          /\ occResult[1].next # <<>>
          /\ resResult[1].commuteDate = occResult[1].next[1].date

\* C34 (next-week warning): for an enabled recurring commute that passes
\* the validation of handleSaveCommute, wouldBeNextWeek is true exactly
\* when getNextOccurrence of that commute has isNextWeek = true.
C34_WarningMeansNextWeek ==
    (/\ wbnPc \in {"asked", "done"}
     /\ wbnResult.alert \in {"", "Alarm Scheduled for Next Week"}
     /\ wbnResult.editingCommute[1].isRecurring
     /\ wbnResult.editingCommute[1].enabled)
    => LET next == getNextOccurrence(wbnResult.editingCommute[1], resNow)
       IN wbnResult.nextWeek <=> (next # <<>> /\ next[1].isNextWeek)

\* ------------------------------------------------------------------------
\* Properties of the API client (continued)
\* ------------------------------------------------------------------------
\* C32 (full cooldown): a provider that has failed is available again only
\* when 5 minutes have passed since its most recent failure, also when it
\* failed again while the timer of an earlier failure was still pending.
C32_FullCooldown ==
    \A i \in 1..Len(providers) :
        (providers[i].lastError # Null /\ providers[i].isAvailable)
           => apiNow >= providers[i].lastError + 5 * 60 * 1000

\* ------------------------------------------------------------------------
\* Properties of the background task
\* ------------------------------------------------------------------------
\* C33 (one completion signal): a background task that has ended has called
\* BackgroundFetch.finish(taskId) exactly once, whichever way it ended.
C33_FinishedExactlyOnce ==
    proc["bg"].pc = "done" => proc["bg"].finishes = 1

====
